---------------------------- MODULE Spec2Model ----------------------------
(***************************************************************************)
(* A model of ldk-boss, the channel-management daemon for an LDK node.     *)
(*                                                                         *)
(* The state is the daemon's configuration, the node server it drives      *)
(* (channels, balances), the history store (one variable per table) and    *)
(* the position of each caller inside the retrying RPC client.  Every      *)
(* handler of the source is one action; the pure planners are operators.   *)
(*                                                                         *)
(* Floating point: the fee multipliers are carried in thousandths          *)
(* (MILLI = 1.000) and truncated where the source casts to an integer.     *)
(* Amounts are kept below 2^31 so that no product leaves the integers of   *)
(* TLC; the source computes them in u64 / f64, where they do not overflow  *)
(* either.                                                                 *)
(***************************************************************************)
EXTENDS Integers, Sequences, FiniteSets, TLC

VARIABLES
    config,          \* config.rs: Config (the fields the engines read)
    planArgs,        \* opener.rs: the arguments of one plan_opens call
    plan,            \* opener.rs: the Vec<PlannedOpen> it returned
    planned,         \* whether plan_opens has returned
    permits,         \* client.rs: LdkBossClient.rate_limiter (free permits)
    rpc,             \* client.rs: each caller's position inside with_retry
    price_theory_center,  \* db.rs: table price_theory_center (peer -> price)
    price_theory_cards,   \* db.rs: table price_theory_cards (peer -> rows by id)
    decks_created,   \* db.rs: price_theory_cards id sequence, as decks per peer
    round_ended,     \* history: what end_round did for a peer in the last call
    pt_calls,        \* history: number of price-theory calls so far
    last_op,         \* history: the price-theory function called last
    tick_peers,      \* history: the peer list of the last update_tick call
    channels,        \* the node server's channels, as ListChannels returns them
    rpcLog,          \* history: the client calls of the last engine run, in order
    feeLog,          \* history: what fees::run decided per channel, last run
    feePrev,         \* history: feeLog of the run before
    cycles,          \* history: number of runs so far
    earnings,        \* db.rs: table earnings, rows in insertion order
    rebalance_costs, \* db.rs: table rebalance_costs, rows in insertion order
    today,           \* the clock: chrono::Utc::now(), in whole days
    rebalLog,        \* history: the pairs the rebalancer reached, last run
    channel_history, \* db.rs: table channel_history, rows in insertion order
    judge_closures,  \* db.rs: table judge_closures, rows in insertion order
    judgeLog,        \* history: what judge::run gathered and recommended, last run
    node_balances,   \* the node server's balances, as GetBalances returns them
    onchain_fee_samples,  \* db.rs: table onchain_fee_samples, rows in id order
    fee_regime,      \* db.rs: run_state row 'fee_regime' (no row: <<>>)
    autopilot_opens, \* db.rs: table autopilot_opens, rows in insertion order
    peer_addresses,  \* db.rs: table peer_addresses, rows in insertion order
    autoLog,         \* history: what autopilot::run decided and planned, last run
    tick_count,      \* scheduler.rs: Scheduler.tick_count
    force_all,       \* scheduler.rs: Scheduler.force_all
    trackLog,        \* history: the last two calls of channels::update, oldest first
    forwards,        \* the node server's list of forwarded payments, oldest first
    sync_state,      \* table sync_state: the saved forwarded_payments_token, or none
    ingested,        \* history: payment id -> how many times ingest has counted it
    gates,           \* history: the scheduler's answers at the last evaluation of its gates
    daemon_pc,       \* run_daemon: the position of the control loop
    shutdown_tx,     \* the value of the shutdown watch channel
    node_epoch,      \* the node server: a counter of the changes of its state
    node_state,      \* run_cycle: the snapshot collected in phase 1 (its epoch), or none
    phaseLog,        \* history: the phases the current cycle has run, in order
    daemonLog,       \* history: cycles started and ended, and the shutdown value at each start
    regimeLog,       \* history: the last onchain_fees::update and the last current_regime
    candidate_list, \* the list the last call of get_candidates returned, or none
    regime_trace,    \* history: the regimes the autopilot's decisions used
    algo_peers,      \* judge(): the peers argument
    algo_cost,       \* judge(): the reopen_cost_sats argument
    algo_out         \* judge(): the returned recommendations, <<>> before the call

vars == <<config, planArgs, plan, planned, permits, rpc,
          price_theory_center, price_theory_cards, decks_created,
          round_ended, pt_calls, last_op, tick_peers,
          channels, rpcLog, feeLog, feePrev, cycles,
          earnings, rebalance_costs, today, rebalLog,
          channel_history, judge_closures, judgeLog,
          node_balances, onchain_fee_samples, fee_regime, autopilot_opens,
          peer_addresses, autoLog, tick_count, force_all,
          trackLog,
          forwards, sync_state, ingested,
          gates, daemon_pc, shutdown_tx, node_epoch, node_state, phaseLog, daemonLog,
          regimeLog,
          candidate_list,
          regime_trace,
          algo_peers, algo_cost, algo_out>>

openerVars == <<planArgs, plan, planned>>

clientVars == <<permits, rpc>>

nodeVars == <<channels, rpcLog, cycles>>

feeVars == <<feeLog, feePrev>>

earnVars == <<earnings, rebalance_costs, today>>

rebalVars == <<rebalLog>>

judgeVars == <<channel_history, judge_closures, judgeLog>>

autoVars == <<node_balances, onchain_fee_samples, fee_regime, autopilot_opens,
              peer_addresses, autoLog>>

schedVars == <<tick_count, force_all>>

trackVars == <<trackLog>>

ingestVars == <<forwards, sync_state, ingested>>

daemonVars == <<gates, daemon_pc, shutdown_tx, node_epoch, node_state, phaseLog, daemonLog>>

regimeVars == <<regimeLog>>

candVars == <<candidate_list>>

hystVars == <<regime_trace>>

algoVars == <<algo_peers, algo_cost, algo_out>>

priceVars == <<price_theory_center, price_theory_cards, decks_created,
               round_ended, pt_calls, last_op, tick_peers>>

-----------------------------------------------------------------------------
(* Helpers for the integer arithmetic of the source.                       *)

Min(a, b) == IF a <= b THEN a ELSE b

Max(a, b) == IF a >= b THEN a ELSE b

\* u64::saturating_sub
SaturatingSub(a, b) == IF a >= b THEN a - b ELSE 0

RECURSIVE SeqSum(_)
SeqSum(s) == IF s = <<>> THEN 0 ELSE Head(s) + SeqSum(Tail(s))

-----------------------------------------------------------------------------
(* config.rs: the defaults of every section.                               *)

DefaultConfig ==
    [ dry_run                          |-> FALSE,
      \* [autopilot]
      autopilot_enabled                |-> TRUE,
      ranking_api_url                  |-> "",
      seed_nodes                       |-> << >>,
      blacklist                        |-> << >>,
      min_channels_to_backoff          |-> 4,
      max_proposals                    |-> 5,
      min_channel_sats                 |-> 100000,
      max_channel_sats                 |-> 16777215,
      onchain_reserve_sats             |-> 30000,
      min_onchain_percent              |-> 10,
      max_onchain_percent              |-> 25,
      announce_channels                |-> TRUE,
      \* [fees]
      fees_enabled                     |-> TRUE,
      default_base_msat                |-> 1000,
      default_ppm                      |-> 100,
      balance_modder_enabled           |-> TRUE,
      preferred_bin_size_sats          |-> 200000,
      price_theory_enabled             |-> TRUE,
      price_theory_card_lifetime_ticks |-> 288,
      price_theory_max_step            |-> 2,
      \* [rebalancer]; the f64 percentages are held in tenths of a percent
      rebalancer_enabled               |-> TRUE,
      max_spendable_permille           |-> 250,
      source_gap_permille              |-> 25,
      target_spendable_permille        |-> 750,
      max_fee_ppm                      |-> 1000,
      max_total_fee_sats               |-> 10000,
      trigger_probability              |-> 50,
      \* [judge]
      judge_enabled                    |-> FALSE,
      min_age_days                     |-> 90,
      evaluation_window_days           |-> 30,
      estimated_reopen_cost_sats       |-> 5000,
      cooperative_close                |-> TRUE,
      \* [onchain_fees]
      provider                         |-> "mempool",
      hi_to_lo_percentile              |-> 17,
      lo_to_hi_percentile              |-> 23 ]

-----------------------------------------------------------------------------
(* client.rs: LdkBossClient, the rate-limited retrying client.  Every      *)
(* method of the LdkClient trait goes through with_retry.                  *)

MAX_RETRIES == 3

RETRY_BASE_MS == 1000

RATE_LIMIT_DELAY_MS == 100

ReadRpcs == {"GetNodeInfo", "GetBalances", "ListChannels", "ListForwardedPayments"}

MutatingRpcs == {"UpdateChannelConfig", "OpenChannel", "CloseChannel",
                 "ForceCloseChannel", "Bolt11Send"}

AllRpcs == ReadRpcs \cup MutatingRpcs \cup {"ConnectPeer", "Bolt11Receive"}

\* The tasks that may use the one client at the same time.
Callers == {"t1", "t2"}

\* pc: idle -> acquire -> rate_sleep -> send -> in_flight -> (backoff -> acquire
\* ...) -> returned.  sent counts the requests this invocation put on the wire,
\* delays the backoff sleeps it took (ms).
RpcIdle ==
    [pc |-> "idle", kind |-> "none", attempt |-> 0, sent |-> 0,
     delays |-> <<>>, result |-> "none"]

ClientIdle ==
    /\ permits = 1
    /\ rpc = [c \in Callers |-> RpcIdle]

\* A trait method is called: with_retry starts with attempt 0.
Invoke(c, kind) ==
    /\ rpc[c].pc = "idle"
    /\ rpc' = [rpc EXCEPT ![c] = [RpcIdle EXCEPT !.pc = "acquire", !.kind = kind]]
    /\ UNCHANGED permits

\* rate_limit: self.rate_limiter.acquire().await
Acquire(c) ==
    /\ rpc[c].pc = "acquire"
    /\ permits >= 1
    /\ permits' = permits - 1
    /\ rpc' = [rpc EXCEPT ![c].pc = "rate_sleep"]

\* rate_limit: the sleep of RATE_LIMIT_DELAY_MS ends and rate_limit returns,
\* which drops _permit.
RateLimitReturn(c) ==
    /\ rpc[c].pc = "rate_sleep"
    /\ permits' = permits + 1
    /\ rpc' = [rpc EXCEPT ![c].pc = "send"]

\* with_retry: f() is called, the request goes to the node server.
SendRequest(c) ==
    /\ rpc[c].pc = "send"
    /\ rpc' = [rpc EXCEPT ![c].pc = "in_flight", ![c].sent = @ + 1]
    /\ UNCHANGED permits

\* with_retry: the match on f().await.
WithRetryMatch(r, ok) ==
    IF ok THEN [r EXCEPT !.pc = "returned", !.result = "Ok"]
    ELSE IF r.attempt < MAX_RETRIES - 1
         THEN [r EXCEPT !.pc = "backoff",
                        !.delays = Append(@, RETRY_BASE_MS * 2^(r.attempt))]
         ELSE [r EXCEPT !.pc = "returned", !.result = "Err"]

Response(c, ok) ==
    /\ rpc[c].pc = "in_flight"
    /\ rpc' = [rpc EXCEPT ![c] = WithRetryMatch(rpc[c], ok)]
    /\ UNCHANGED permits

\* with_retry: the backoff sleep ends, the for loop takes the next attempt.
BackoffDone(c) ==
    /\ rpc[c].pc = "backoff"
    /\ rpc' = [rpc EXCEPT ![c].pc = "acquire", ![c].attempt = @ + 1]
    /\ UNCHANGED permits

\* The caller has taken the result; it may call again.
Return(c) ==
    /\ rpc[c].pc = "returned"
    /\ rpc' = [rpc EXCEPT ![c] = RpcIdle]
    /\ UNCHANGED permits

-----------------------------------------------------------------------------
(* fees/price_theory.rs: the per-peer card game.                           *)
(*                                                                         *)
(* The two tables are threaded through the operators as one record         *)
(* pt = [center, cards, decks, ended].  cards[p] holds the rows of peer p  *)
(* in ascending id (AUTOINCREMENT: insertion order); decks[p] counts the   *)
(* decks inserted for p, and a row's born is the number of its deck, which *)
(* stands for the id range the deck was given.                             *)
(* Each operator returns the SET of stores the call can leave: the shuffle *)
(* of create_deck draws any permutation, and a LIMIT 1 query over rows     *)
(* that tie in its ORDER BY may return any of them.                        *)

MAX_PRICE == 10

POS_DECK == 0

POS_IN_PLAY == 1

POS_DISCARDED == 2

Peers == {"pA", "pB"}

\* A row of price_theory_center is <<price>>; a peer without one has NoRow.
NoRow == <<>>

NotEnded == [ended |-> FALSE]

Clamp(x, lo, hi) == IF x < lo THEN lo ELSE IF x > hi THEN hi ELSE x

Shuffles(n) ==
    { f \in [1..n -> 1..n] : \A i, j \in 1..n : f[i] = f[j] => i = j }

\* The indices of the rows of peer p at position pos.
RowsAt(pt, p, pos) ==
    { i \in 1..Len(pt.cards[p]) : pt.cards[p][i].position = pos }

\* SELECT ... WHERE position = 1 LIMIT 1: any in-play row.
InPlayRows(pt, p) == RowsAt(pt, p, POS_IN_PLAY)

\* SELECT ... WHERE position = 0 ORDER BY deck_order ASC LIMIT 1.
NextDeckRows(pt, p) ==
    { i \in RowsAt(pt, p, POS_DECK) :
        \A j \in RowsAt(pt, p, POS_DECK) :
            pt.cards[p][i].deck_order <= pt.cards[p][j].deck_order }

\* The query of end_round without its ORDER BY: a faulty variant that may
\* return any discarded row.
BestDiscardedRows_Unordered(pt, p) == RowsAt(pt, p, POS_DISCARDED)

\* SELECT ... WHERE position = 2 ORDER BY earnings_msat DESC LIMIT 1.
BestDiscardedRows(pt, p) ==
    { i \in RowsAt(pt, p, POS_DISCARDED) :
        \A j \in RowsAt(pt, p, POS_DISCARDED) :
            pt.cards[p][i].earnings_msat >= pt.cards[p][j].earnings_msat }

\* create_deck: prices center-step .. center+step, clamped, shuffled, inserted
\* with deck_order 0, 1, ... in position deck.
DeckPrices(center, cfg) ==
    [ i \in 1..(2 * cfg.price_theory_max_step + 1) |->
        Clamp(center + (i - 1 - cfg.price_theory_max_step), -MAX_PRICE, MAX_PRICE) ]

CreateDeck(pt, p, center, cfg) ==
    LET prices == DeckPrices(center, cfg)
        n      == Len(prices)
    IN  { [pt EXCEPT !.decks[p] = @ + 1,
                     !.cards[p] = @ \o
              [ k \in 1..n |->
                  [ position      |-> POS_DECK,
                    deck_order    |-> k - 1,
                    price         |-> prices[perm[k]],
                    lifetime      |-> cfg.price_theory_card_lifetime_ticks,
                    earnings_msat |-> 0,
                    born          |-> pt.decks[p] + 1 ] ] ]
          : perm \in Shuffles(n) }

\* ensure_initialized without its "peer already has cards" test: a faulty
\* variant, which the deck-size property must reject.
EnsureInitialized_Unguarded(pt, p, cfg) ==
    CreateDeck(IF pt.center[p] = NoRow THEN [pt EXCEPT !.center[p] = <<0>>] ELSE pt,
               p, 0, cfg)

\* ensure_initialized
EnsureInitialized(pt, p, cfg) ==
    IF Len(pt.cards[p]) > 0 THEN {pt}
    ELSE LET withCenter ==                       \* INSERT OR IGNORE ... 0
                 IF pt.center[p] = NoRow
                 THEN [pt EXCEPT !.center[p] = <<0>>]
                 ELSE pt
         IN  CreateDeck(withCenter, p, 0, cfg)

\* end_round without its DELETE of the peer's cards: a faulty variant, which
\* the fresh-deck property must reject.
EndRound_KeepsCards(pt, p, cfg) ==
    LET new_centers ==
            IF RowsAt(pt, p, POS_DISCARDED) # {}
            THEN { Clamp(pt.cards[p][i].price, -MAX_PRICE, MAX_PRICE)
                   : i \in BestDiscardedRows(pt, p) }
            ELSE { IF pt.center[p] = NoRow THEN 0 ELSE pt.center[p][1] }
    IN  UNION {
          { [d EXCEPT !.ended[p] = [ended      |-> TRUE,
                                    new_center |-> c,
                                    before     |-> pt.cards[p],
                                    after      |-> d.cards[p]]]
            : d \in CreateDeck([pt EXCEPT !.center[p] = <<c>>], p, c, cfg) }
          : c \in new_centers }

\* end_round
EndRound(pt, p, cfg) ==
    LET new_centers ==
            IF RowsAt(pt, p, POS_DISCARDED) # {}
            THEN { Clamp(pt.cards[p][i].price, -MAX_PRICE, MAX_PRICE)
                   : i \in BestDiscardedRows(pt, p) }
            ELSE { IF pt.center[p] = NoRow THEN 0 ELSE pt.center[p][1] }
    IN  UNION {
          { [d EXCEPT !.ended[p] = [ended      |-> TRUE,
                                    new_center |-> c,
                                    before     |-> pt.cards[p],
                                    after      |-> d.cards[p]]]
            : d \in CreateDeck([pt EXCEPT !.center[p] = <<c>>,   \* INSERT OR REPLACE
                                          !.cards[p]  = <<>>],   \* DELETE
                               p, c, cfg) }
          : c \in new_centers }

\* UPDATE ... SET position = in-play, lifetime = card_lifetime WHERE id = i
PutInPlay(pt, p, i, cfg) ==
    [pt EXCEPT !.cards[p][i].position = POS_IN_PLAY,
               !.cards[p][i].lifetime = cfg.price_theory_card_lifetime_ticks]

\* draw_card
DrawCard(pt, p, cfg) ==
    IF NextDeckRows(pt, p) # {}
    THEN { PutInPlay(pt, p, i, cfg) : i \in NextDeckRows(pt, p) }
    ELSE UNION {
           IF NextDeckRows(r, p) # {}
           THEN { PutInPlay(r, p, i, cfg) : i \in NextDeckRows(r, p) }
           ELSE {r}
           : r \in EndRound(pt, p, cfg) }

\* The loop body of update_tick without the discard of the expired card: a
\* faulty variant, which the one-card-in-play property must reject.
TickPeerFrom_NoDiscard(pt, p, cfg) ==
    IF InPlayRows(pt, p) # {}
    THEN UNION {
           IF pt.cards[p][i].lifetime <= 1
           THEN DrawCard(pt, p, cfg)
           ELSE { [pt EXCEPT !.cards[p][i].lifetime = @ - 1] }
           : i \in InPlayRows(pt, p) }
    ELSE DrawCard(pt, p, cfg)

\* The loop body of update_tick with `lifetime <= 0` for `lifetime <= 1`: a
\* faulty variant that keeps a card one tick too long.
TickPeerFrom_OneTickLate(pt, p, cfg) ==
    IF InPlayRows(pt, p) # {}
    THEN UNION {
           IF pt.cards[p][i].lifetime <= 0
           THEN DrawCard([pt EXCEPT !.cards[p][i].position = POS_DISCARDED,
                                    !.cards[p][i].lifetime = 0], p, cfg)
           ELSE { [pt EXCEPT !.cards[p][i].lifetime = @ - 1] }
           : i \in InPlayRows(pt, p) }
    ELSE DrawCard(pt, p, cfg)

\* The body of the loop with the expired card discarded and no card drawn in
\* the same tick: a faulty variant, which leaves the peer without a card in
\* play until its next tick.
TickPeerFrom_DiscardOnly(pt, p, cfg) ==
    IF InPlayRows(pt, p) # {}
    THEN { IF pt.cards[p][i].lifetime <= 1
           THEN [pt EXCEPT !.cards[p][i].position = POS_DISCARDED,
                           !.cards[p][i].lifetime = 0]
           ELSE [pt EXCEPT !.cards[p][i].lifetime = @ - 1]
           : i \in InPlayRows(pt, p) }
    ELSE DrawCard(pt, p, cfg)

\* update_tick: the body of the loop for one peer of connected_peers.
TickPeerFrom(pt, p, cfg) ==
    IF InPlayRows(pt, p) # {}
    THEN UNION {
           IF pt.cards[p][i].lifetime <= 1
           THEN DrawCard([pt EXCEPT !.cards[p][i].position = POS_DISCARDED,
                                    !.cards[p][i].lifetime = 0], p, cfg)
           ELSE { [pt EXCEPT !.cards[p][i].lifetime = @ - 1] }
           : i \in InPlayRows(pt, p) }
    ELSE DrawCard(pt, p, cfg)

TickPeer(pt, p, cfg) ==
    UNION { TickPeerFrom(q, p, cfg) : q \in EnsureInitialized(pt, p, cfg) }

\* update_tick
RECURSIVE UpdateTick(_, _, _)
UpdateTick(pt, connected_peers, cfg) ==
    IF connected_peers = <<>> THEN {pt}
    ELSE UNION { UpdateTick(q, Tail(connected_peers), cfg)
                 : q \in TickPeer(pt, Head(connected_peers), cfg) }

\* record_earnings: UPDATE ... SET earnings_msat = earnings_msat + fee
\* WHERE counterparty_node_id = p AND position = in-play
RecordEarnings(pt, p, fee_msat) ==
    [pt EXCEPT !.cards[p] =
        [ i \in 1..Len(@) |->
            IF @[i].position = POS_IN_PLAY
            THEN [@[i] EXCEPT !.earnings_msat = @ + fee_msat]
            ELSE @[i] ] ]

-----------------------------------------------------------------------------
(* fees/balance_modder.rs, fees/price_theory.rs (multipliers), fees/setter.rs *)
(* and fees/mod.rs: the fee controller.                                    *)
(*                                                                         *)
(* The f64 multipliers are fixed-point numbers in thousandths (MILLI).     *)
(* A channel is [channel_id, counterparty_node_id, channel_value_sats,     *)
(* outbound_capacity_msat, is_usable, channel_config]; channel_config is   *)
(* NoConfig or << [forwarding_fee_base_msat,                               *)
(* forwarding_fee_proportional_millionths] >>.                             *)

ABS_MIN_FEE_PPM == 1

ABS_MAX_FEE_PPM == 50000

MILLI == 1000

MICRO == 1000000

\* channel_config is an Option: NoConfig (None) or <<config>> (Some).
NoConfig == <<>>

\* get_ratio_by_bin: 50 ^ (1/2 - (1 + 2 bin) / (2 num_bins)) in thousandths,
\* for the bin counts the modelled channels have.
RatioByBinMilli ==
    [ num_bins \in {4, 5} |->
        IF num_bins = 4 THEN <<4336, 1631, 613, 231>>
                        ELSE <<4782, 2187, 1000, 457, 209>> ]

GetRatioByBin(bin, num_bins) == RatioByBinMilli[num_bins][bin + 1]

\* get_num_bins: round(channel_sats / preferred_bin_size_sats).max(4).min(50)
GetNumBins(channel_sats, preferred_bin_size_sats) ==
    IF preferred_bin_size_sats = 0 THEN 4
    ELSE Min(Max((2 * channel_sats + preferred_bin_size_sats)
                    \div (2 * preferred_bin_size_sats), 4), 50)

\* floor(clamp(outbound_msat / (value_sats * 1000), 0, 1) * num_bins), the
\* product taken over whole sats and the msat remainder to stay in range.
GetBin(outbound_msat, value_sats, num_bins) ==
    LET sats == outbound_msat \div 1000
        rest == outbound_msat % 1000
    IN  IF outbound_msat >= value_sats * 1000 THEN num_bins
        ELSE (num_bins * sats + (num_bins * rest) \div 1000) \div value_sats

\* get_ratio_binned
GetRatioBinned(outbound_msat, value_sats, preferred_bin_size_sats) ==
    LET num_bins == GetNumBins(value_sats, preferred_bin_size_sats)
        bin      == Min(GetBin(outbound_msat, value_sats, num_bins), num_bins - 1)
    IN  GetRatioByBin(bin, num_bins)

\* price_to_multiplier: 1.2 ^ price, in millionths.
RECURSIVE PowMicro(_)
PowMicro(price) ==
    IF price = 0 THEN MICRO
    ELSE IF price > 0 THEN (PowMicro(price - 1) * 12) \div 10
    ELSE (PowMicro(price + 1) * 10) \div 12

PriceToMultiplier(price) == (PowMicro(price) + 500) \div 1000

\* get_fee_modifier: the multiplier of the card in play (LIMIT 1: any of
\* them), 1.0 when there is none.
GetFeeModifier(pt, p) ==
    IF InPlayRows(pt, p) = {} THEN {MILLI}
    ELSE { PriceToMultiplier(pt.cards[p][i].price) : i \in InPlayRows(pt, p) }

\* (x as f64 * m) as u32, m in thousandths.
ScaleU32(x, m_milli) == (x * m_milli) \div MILLI

\* fees::run lines 61-67 without the clamp: a faulty variant, which the
\* ppm-range property must reject.
ComputePpm_Unclamped(cfg, combined_milli) == ScaleU32(cfg.default_ppm, combined_milli)

\* fees::run lines 63 and 66
ComputePpm(cfg, combined_milli) ==
    Min(Max(ScaleU32(cfg.default_ppm, combined_milli), ABS_MIN_FEE_PPM), ABS_MAX_FEE_PPM)

\* fees::run lines 62 and 67
ComputeBase(cfg, combined_milli) == Max(ScaleU32(cfg.default_base_msat, combined_milli), 0)

\* The (base, ppm) pair of a channel's config, None fields read as 0.
CurrentPair(channel) ==
    IF channel.channel_config = NoConfig THEN <<0, 0>>
    ELSE <<channel.channel_config[1].forwarding_fee_base_msat,
           channel.channel_config[1].forwarding_fee_proportional_millionths>>

\* The node server applying an UpdateChannelConfig request.
ServerUpdateConfig(node, channel_id, base, ppm) ==
    [ k \in 1..Len(node) |->
        IF node[k].channel_id = channel_id
        THEN [node[k] EXCEPT !.channel_config =
                 << [forwarding_fee_base_msat |-> base,
                     forwarding_fee_proportional_millionths |-> ppm] >>]
        ELSE node[k] ]

\* One entry of feeLog.
FeeDecision(channel, price_milli, combined_milli, base, ppm, requested, ok) ==
    [ channel_id     |-> channel.channel_id,
      value_sats     |-> channel.channel_value_sats,
      outbound_msat  |-> channel.outbound_capacity_msat,
      price_milli    |-> price_milli,
      combined_milli |-> combined_milli,
      current        |-> CurrentPair(channel),
      computed       |-> <<base, ppm>>,
      requested      |-> requested,
      ok             |-> ok ]

\* One entry of rpcLog: a call of an LdkClient method and how it returned.
RpcCall(kind, target, args, ok) ==
    [kind |-> kind, target |-> target, args |-> args, ok |-> ok]

\* apply_if_changed without the comparison with the current pair: a faulty
\* variant, which the only-when-changed property must reject.
ApplyIfChanged_Always(cfg, st, channel, price_milli, combined_milli, base, ppm) ==
    IF cfg.dry_run
    THEN { [st EXCEPT !.fee = Append(@, FeeDecision(channel, price_milli, combined_milli,
                                                    base, ppm, FALSE, FALSE))] }
    ELSE { [st EXCEPT
              !.rpc  = Append(@, RpcCall("UpdateChannelConfig", channel.channel_id,
                                         <<base, ppm>>, ok)),
              !.node = IF ok THEN ServerUpdateConfig(@, channel.channel_id, base, ppm)
                             ELSE @,
              !.fee  = Append(@, FeeDecision(channel, price_milli, combined_milli,
                                             base, ppm, TRUE, ok)),
              !.failed = ~ok]
           : ok \in BOOLEAN }

\* apply_if_changed.  st = [node, rpc, fee, failed]: the node server's
\* channels, the calls made so far, the decisions so far, and whether the
\* last call returned Err (which `?` propagates out of fees::run).
ApplyIfChanged(cfg, st, channel, price_milli, combined_milli, base, ppm) ==
    IF CurrentPair(channel) = <<base, ppm>>
    THEN { [st EXCEPT !.fee = Append(@, FeeDecision(channel, price_milli, combined_milli,
                                                    base, ppm, FALSE, FALSE))] }
    ELSE IF cfg.dry_run
    THEN { [st EXCEPT !.fee = Append(@, FeeDecision(channel, price_milli, combined_milli,
                                                    base, ppm, FALSE, FALSE))] }
    ELSE { [st EXCEPT
              !.rpc  = Append(@, RpcCall("UpdateChannelConfig", channel.channel_id,
                                         <<base, ppm>>, ok)),
              !.node = IF ok THEN ServerUpdateConfig(@, channel.channel_id, base, ppm)
                             ELSE @,
              !.fee  = Append(@, FeeDecision(channel, price_milli, combined_milli,
                                             base, ppm, TRUE, ok)),
              !.failed = ~ok]
           : ok \in BOOLEAN }

\* fees::run, the loop over the usable channels (lines 31-78).
RECURSIVE FeeLoop(_, _, _, _, _)
FeeLoop(cfg, pt, usable, i, st) ==
    IF i > Len(usable) \/ st.failed THEN {st}
    ELSE LET channel == usable[i]
             balance_mult ==
                 IF cfg.balance_modder_enabled
                 THEN GetRatioBinned(channel.outbound_capacity_msat,
                                     channel.channel_value_sats,
                                     cfg.preferred_bin_size_sats)
                 ELSE MILLI
             price_mults ==
                 IF cfg.price_theory_enabled
                 THEN GetFeeModifier(pt, channel.counterparty_node_id)
                 ELSE {MILLI}
         IN  IF channel.channel_value_sats = 0
             THEN FeeLoop(cfg, pt, usable, i + 1, st)
             ELSE UNION { UNION { FeeLoop(cfg, pt, usable, i + 1, st2)
                                  : st2 \in ApplyIfChanged(cfg, st, channel, pm,
                                        (balance_mult * pm) \div MILLI,
                                        ComputeBase(cfg, (balance_mult * pm) \div MILLI),
                                        ComputePpm(cfg, (balance_mult * pm) \div MILLI)) }
                          : pm \in price_mults }

IsUsable(c) == c.is_usable

\* fees::run: the peer of each usable channel, one entry per channel.
UsablePeerIds(snapshot) ==
    LET usable == SelectSeq(snapshot, IsUsable)
    IN  [k \in 1..Len(usable) |-> usable[k].counterparty_node_id]

\* fees::run.  The result adds the price-theory store the run leaves and
\* whether update_tick was reached.
FeesRun(cfg, pt, snapshot, st) ==
    LET usable   == SelectSeq(snapshot, IsUsable)
        peer_ids == UsablePeerIds(snapshot)
    IN  IF usable = <<>>
        THEN { [run |-> st, store |-> pt, ticked |-> FALSE] }
        ELSE UNION {
               IF st2.failed \/ ~cfg.price_theory_enabled
               THEN { [run |-> st2, store |-> pt, ticked |-> FALSE] }
               ELSE { [run |-> st2, store |-> q, ticked |-> TRUE]
                      : q \in UpdateTick(pt, peer_ids, cfg) }
               : st2 \in FeeLoop(cfg, pt, usable, 1, st) }


-----------------------------------------------------------------------------
(* tracker/earnings.rs (queries) and rebalancer/: the earnings rebalancer. *)
(*                                                                         *)
(* A row of earnings or rebalance_costs is [channel_id,                    *)
(* counterparty_node_id, day_bucket, fee_msat, amount_msat, direction];    *)
(* day buckets and the clock are counted in days.  Percentages are tenths  *)
(* of a percent, so that total_msat * pct / 100 is value_sats * permille.  *)

ABS_MAX_REBALANCE_FEE_SATS == 50000

TOP_REBALANCING_PERCENTILE == 20

EARNINGS_WINDOW_DAYS == 30

\* SELECT COALESCE(SUM(fee), 0) FROM table WHERE counterparty_node_id = peer
\* AND day_bucket >= bucket AND direction = dir
RECURSIVE SumFees(_, _, _, _)
SumFees(table, peer, bucket, dir) ==
    IF table = <<>> THEN 0
    ELSE (IF /\ Head(table).counterparty_node_id = peer
             /\ Head(table).day_bucket >= bucket
             /\ Head(table).direction = dir
          THEN Head(table).fee_msat ELSE 0)
         + SumFees(Tail(table), peer, bucket, dir)

\* peer_earnings_since
PeerEarningsSince(earn, costs, peer, bucket) ==
    [ in_earnings_msat      |-> SumFees(earn, peer, bucket, "in"),
      out_earnings_msat     |-> SumFees(earn, peer, bucket, "out"),
      in_expenditures_msat  |-> SumFees(costs, peer, bucket, "in"),
      out_expenditures_msat |-> SumFees(costs, peer, bucket, "out") ]

InNet(e) == e.in_earnings_msat - e.in_expenditures_msat

OutNet(e) == e.out_earnings_msat - e.out_expenditures_msat

TotalNet(e) == InNet(e) + OutNet(e)

\* INSERT ... ON CONFLICT(channel_id, day_bucket, direction) DO UPDATE SET
\* fee = fee + new fee, amount = amount + new amount
RECURSIVE Upsert(_, _)
Upsert(table, row) ==
    IF table = <<>> THEN <<row>>
    ELSE IF /\ Head(table).channel_id = row.channel_id
            /\ Head(table).day_bucket = row.day_bucket
            /\ Head(table).direction = row.direction
         THEN << [Head(table) EXCEPT !.fee_msat = @ + row.fee_msat,
                                     !.amount_msat = @ + row.amount_msat] >>
              \o Tail(table)
         ELSE <<Head(table)>> \o Upsert(Tail(table), row)

\* floor(a * b / 1 000 000) for a, b whose product exceeds the integer range
MulDivMillion(a, b) ==
    LET a1 == a \div 1000
        a0 == a % 1000
        b1 == b \div 1000
        b0 == b % 1000
    IN  a1 * b1 + (a1 * b0 + a0 * b1 + (a0 * b0) \div 1000) \div 1000

\* Vec::sort_by(|a, b| b.1.cmp(&a.1)): stable, highest second component first
RECURSIVE InsertDesc(_, _)
InsertDesc(x, sorted) ==
    IF sorted = <<>> THEN <<x>>
    ELSE IF Head(sorted)[2] <= x[2] THEN <<x>> \o sorted
    ELSE <<Head(sorted)>> \o InsertDesc(x, Tail(sorted))

RECURSIVE SortDesc(_)
SortDesc(list) ==
    IF list = <<>> THEN <<>> ELSE InsertDesc(Head(list), SortDesc(Tail(list)))

\* The ChannelBalance list: channels of value 0 are left out.
HasValue(c) == c.channel_value_sats # 0

Balances(usable) == SelectSeq(usable, HasValue)

\* spendable_percent < max_spendable
IsDestination(cfg, bal) ==
    bal.outbound_capacity_msat < cfg.max_spendable_permille * bal.channel_value_sats

\* spendable_percent > max_spendable + source_gap
IsSource(cfg, bal) ==
    ~IsDestination(cfg, bal)
    /\ bal.outbound_capacity_msat >
          (cfg.max_spendable_permille + cfg.source_gap_permille) * bal.channel_value_sats

\* The (index, net earnings) lists of lines 72-87.
RECURSIVE Classify(_, _, _, _, _, _, _)
Classify(cfg, balances, earn, costs, bucket, i, acc) ==
    IF i > Len(balances) THEN acc
    ELSE LET bal == balances[i]
             pe  == PeerEarningsSince(earn, costs, bal.counterparty_node_id, bucket)
         IN  Classify(cfg, balances, earn, costs, bucket, i + 1,
                 IF IsDestination(cfg, bal)
                 THEN [acc EXCEPT !.destinations = Append(@, <<i, OutNet(pe)>>)]
                 ELSE IF IsSource(cfg, bal)
                 THEN [acc EXCEPT !.sources = Append(@, <<i, InNet(pe)>>)]
                 ELSE acc)

\* remaining_budget without the per-cycle cap: a faulty variant, which the
\* fee-cap property must reject.
RemainingBudget_Uncapped(cfg, total_fee_spent) == 2000000000

\* Lines 103-106 and 143: what is left of min(max_total_fee_sats, 50 000) sat.
RemainingBudget(cfg, total_fee_spent) ==
    SaturatingSub(Min(cfg.max_total_fee_sats, ABS_MAX_REBALANCE_FEE_SATS) * 1000,
                  total_fee_spent)

\* One entry of rebalLog.
RebalDecision(src, dst, amount_msat, fee_budget_msat, outcome) ==
    [ src_channel     |-> src.channel_id,
      src_peer        |-> src.counterparty_node_id,
      dst_channel     |-> dst.channel_id,
      dst_peer        |-> dst.counterparty_node_id,
      amount_msat     |-> amount_msat,
      fee_budget_msat |-> fee_budget_msat,
      outcome         |-> outcome ]

\* execute_rebalance: bolt11_receive, then bolt11_send with the fee budget as
\* max_total_routing_fee_msat; either call may return Err.  st = [rpc, costs,
\* log, total_fee_spent]; the result is Ok only when both calls were.
ExecuteRebalance(st, amount_msat, max_fee_msat) ==
    { [ st |-> [st EXCEPT !.rpc = Append(@, RpcCall("Bolt11Receive", "self",
                                                     <<amount_msat>>, FALSE))],
        ok |-> FALSE ] }
    \cup
    { [ st |-> [st EXCEPT !.rpc = @ \o
                   << RpcCall("Bolt11Receive", "self", <<amount_msat>>, TRUE),
                      RpcCall("Bolt11Send", "self", <<amount_msat, max_fee_msat>>, sent) >>],
        ok |-> sent ]
      : sent \in BOOLEAN }

\* The loop of lines 109-193 over the top pairs.
RECURSIVE PairLoop(_, _, _, _, _, _, _, _)
PairLoop(cfg, balances, destinations, sources, num_rebalance, i, now, st) ==
    IF i > num_rebalance THEN {st}
    ELSE
    LET dst == balances[destinations[i][1]]
        src == balances[sources[i][1]]
        dst_earnings == destinations[i][2]
        dest_target_msat == dst.channel_value_sats * cfg.target_spendable_permille
        dest_needed_msat == SaturatingSub(dest_target_msat, dst.outbound_capacity_msat)
        src_min_allowed_msat ==
            src.channel_value_sats * (cfg.max_spendable_permille + cfg.source_gap_permille)
        src_budget_msat == SaturatingSub(src.outbound_capacity_msat, src_min_allowed_msat)
        amount_msat == Min(dest_needed_msat, src_budget_msat)
        fee_budget_msat ==
            Min(Min(MulDivMillion(amount_msat, cfg.max_fee_ppm), dst_earnings),
                RemainingBudget(cfg, st.total_fee_spent))
        next(st2) == PairLoop(cfg, balances, destinations, sources, num_rebalance,
                              i + 1, now, st2)
    IN  IF dst_earnings <= 0 THEN {st}
        ELSE IF amount_msat = 0 THEN next(st)
        ELSE IF fee_budget_msat = 0 THEN next(st)
        ELSE IF cfg.dry_run
        THEN next([st EXCEPT !.log = Append(@, RebalDecision(src, dst, amount_msat,
                                                             fee_budget_msat, "dry_run"))])
        ELSE UNION {
               IF r.ok
               THEN next([r.st EXCEPT
                      !.total_fee_spent = @ + fee_budget_msat,
                      !.costs = Upsert(@, [ channel_id           |-> src.channel_id,
                                            counterparty_node_id |-> src.counterparty_node_id,
                                            day_bucket           |-> now,
                                            fee_msat             |-> fee_budget_msat,
                                            amount_msat          |-> amount_msat,
                                            direction            |-> "out" ]),
                      !.log = Append(@, RebalDecision(src, dst, amount_msat,
                                                      fee_budget_msat, "ok"))])
               ELSE next([r.st EXCEPT
                      !.log = Append(@, RebalDecision(src, dst, amount_msat,
                                                      fee_budget_msat, "err"))])
               : r \in ExecuteRebalance(st, amount_msat, fee_budget_msat) }

\* rebalancer::run with every pair processed instead of the top percentile:
\* a faulty variant, which the bound on the payments of a cycle must reject.
RebalancerRun_AllPairs(cfg, earn, now, snapshot, st) ==
    LET usable   == SelectSeq(snapshot, IsUsable)
        balances == Balances(usable)
        classes  == Classify(cfg, balances, earn, st.costs, now - EARNINGS_WINDOW_DAYS, 1,
                             [destinations |-> <<>>, sources |-> <<>>])
        destinations == SortDesc(classes.destinations)
        sources      == SortDesc(classes.sources)
        num           == Min(Len(destinations), Len(sources))
    IN  IF Len(usable) < 2 THEN {st}
        ELSE IF destinations = <<>> \/ sources = <<>> THEN {st}
        ELSE PairLoop(cfg, balances, destinations, sources, num, 1, now, st)

\* rebalancer::run and rebalancer::earnings::run
RebalancerRun(cfg, earn, now, snapshot, st) ==
    LET usable   == SelectSeq(snapshot, IsUsable)
        balances == Balances(usable)
        classes  == Classify(cfg, balances, earn, st.costs, now - EARNINGS_WINDOW_DAYS, 1,
                             [destinations |-> <<>>, sources |-> <<>>])
        destinations == SortDesc(classes.destinations)
        sources      == SortDesc(classes.sources)
        num           == Min(Len(destinations), Len(sources))
        num_rebalance == Max((num * TOP_REBALANCING_PERCENTILE) \div 100, 1)
    IN  IF Len(usable) < 2 THEN {st}
        ELSE IF destinations = <<>> \/ sources = <<>> THEN {st}
        ELSE PairLoop(cfg, balances, destinations, sources, num_rebalance, 1, now, st)

-----------------------------------------------------------------------------
(* judge/: gatherer.rs, algo.rs, executioner.rs and mod.rs.                *)
(*                                                                         *)
(* Times are whole days.  An earning rate (an f64 in the source) is kept   *)
(* as the exact fraction <<earned_msat, capacity_sats>> and two rates are  *)
(* compared by cross-multiplication.                                       *)

\* tracker/channels.rs channel_age_days: Some(age) is <<age>>, None is <<>>.
\* channel_id is the primary key of channel_history.
ChannelAgeDays(history, channel_id, now) ==
    LET rows == SelectSeq(history, LAMBDA r : r.channel_id = channel_id)
    IN  IF rows = <<>> THEN <<>> ELSE << now - rows[1].first_seen_at >>

\* The age of the oldest of the channels, 0 when none has a history row.
RECURSIVE OldestAge(_, _, _)
OldestAge(history, usable, now) ==
    IF usable = <<>> THEN 0
    ELSE LET age  == ChannelAgeDays(history, Head(usable).channel_id, now)
             rest == OldestAge(history, Tail(usable), now)
         IN  IF age # <<>> /\ age[1] > rest THEN age[1] ELSE rest

\* NodeState::channels_by_peer: the keys of the map, and one entry of it.
PeerIds(snapshot) == { snapshot[k].counterparty_node_id : k \in 1..Len(snapshot) }

ChannelsOfPeer(snapshot, peer) ==
    SelectSeq(snapshot, LAMBDA c : c.counterparty_node_id = peer)

\* The orders in which a HashMap with the keys S may be iterated.
IterationOrders(S) ==
    { f \in [1..Cardinality(S) -> S] :
        \A i, j \in 1..Cardinality(S) : i # j => f[i] # f[j] }

PeerInfo(peer, total_sats, total_earned) ==
    [ counterparty_node_id |-> peer,
      total_channel_sats   |-> total_sats,
      total_earned_msat    |-> total_earned ]

RECURSIVE TotalSats(_)
TotalSats(chans) ==
    IF chans = <<>> THEN 0 ELSE Head(chans).channel_value_sats + TotalSats(Tail(chans))

\* The for loop of gather, over the peers in the given order.
RECURSIVE GatherLoop(_, _, _, _, _, _, _)
GatherLoop(cfg, earn, costs, history, now, snapshot, order) ==
    IF order = <<>> THEN <<>>
    ELSE LET peer   == Head(order)
             usable == SelectSeq(ChannelsOfPeer(snapshot, peer), LAMBDA c : c.is_usable)
             rest   == GatherLoop(cfg, earn, costs, history, now, snapshot, Tail(order))
         IN  IF usable = <<>> THEN rest
             ELSE IF OldestAge(history, usable, now) < cfg.min_age_days THEN rest
             ELSE << PeerInfo(peer, TotalSats(usable),
                        TotalNet(PeerEarningsSince(earn, costs, peer,
                                     now - cfg.evaluation_window_days))) >> \o rest

\* gatherer::gather: one Vec<PeerInfo> per iteration order of the map.
Gather(cfg, earn, costs, history, now, snapshot) ==
    { GatherLoop(cfg, earn, costs, history, now, snapshot, order) :
        order \in IterationOrders(PeerIds(snapshot)) }

\* rate(a) < rate(b), for peers of positive capacity
RateLess(a, b) ==
    a.total_earned_msat * b.total_channel_sats < b.total_earned_msat * a.total_channel_sats

\* Vec::sort_by is stable: x goes behind the entries that are not greater.
RECURSIVE InsertByRate(_, _)
InsertByRate(x, sorted) ==
    IF sorted = <<>> THEN <<x>>
    ELSE IF RateLess(x, Head(sorted)) THEN <<x>> \o sorted
    ELSE <<Head(sorted)>> \o InsertByRate(x, Tail(sorted))

RECURSIVE SortByRate(_)
SortByRate(list) ==
    IF list = <<>> THEN <<>>
    ELSE InsertByRate(list[Len(list)], SortByRate(SubSeq(list, 1, Len(list) - 1)))

\* The loop of weighted_median from index i: the first entry at which the
\* cumulative weight reaches half of the total, else the last entry.
RECURSIVE MedianLoop(_, _, _, _)
MedianLoop(data, i, cumulative, total_weight) ==
    IF i > Len(data) THEN data[Len(data)]
    ELSE IF 2 * (cumulative + data[i].total_channel_sats) >= total_weight THEN data[i]
    ELSE MedianLoop(data, i + 1, cumulative + data[i].total_channel_sats, total_weight)

\* weighted_median: the entry whose rate is the median (data is never
\* empty where judge calls it).
WeightedMedian(data) ==
    IF Len(data) = 1 THEN data[1]
    ELSE MedianLoop(data, 1, 0, TotalSats([k \in 1..Len(data) |->
                                     [channel_value_sats |-> data[k].total_channel_sats]]))

\* (x as i64) of the quotient a / b, b > 0: truncation toward zero
TruncDiv(a, b) == IF a >= 0 THEN a \div b ELSE -((-a) \div b)

CloseRecommendation(peer, expected, improvement) ==
    [ counterparty_node_id      |-> peer.counterparty_node_id,
      expected_earnings_msat    |-> expected,
      expected_improvement_msat |-> improvement ]

\* The triples (median earned msat, median sats, peer sats), among those the
\* specifications below reach, on which the f64 product
\* (earned / (sats * 1000.0)) * peer_sats * 1000.0 falls below the integer
\* earned * peer_sats / sats, so that the cast to i64 yields one less.
F64_EXPECTED_SHORT == { <<21, 1000, 1000>>, <<21, 1000, 2000>>, <<21, 2000, 2000>> }

\* (median_rate * peer.total_channel_sats as f64 * 1000.0) as i64
ExpectedEarnings(median, peer) ==
    LET exact == TruncDiv(median.total_earned_msat * peer.total_channel_sats,
                          median.total_channel_sats)
    IN  IF <<median.total_earned_msat, median.total_channel_sats,
             peer.total_channel_sats>> \in F64_EXPECTED_SHORT
        THEN exact - 1 ELSE exact

\* The for loop over rated, from index i.
RECURSIVE RecommendLoop(_, _, _, _)
RecommendLoop(rated, median, reopen_cost_msat, i) ==
    IF i > Len(rated) THEN <<>>
    ELSE LET peer == rated[i]
             rest == RecommendLoop(rated, median, reopen_cost_msat, i + 1)
             expected_earnings == ExpectedEarnings(median, peer)
             improvement == expected_earnings - peer.total_earned_msat - reopen_cost_msat
         IN  IF ~RateLess(peer, median) THEN rest
             ELSE IF improvement > 0
                  THEN <<CloseRecommendation(peer, expected_earnings, improvement)>> \o rest
                  ELSE rest

\* sort_by improvement descending (stable)
RECURSIVE InsertByImprovement(_, _)
InsertByImprovement(x, sorted) ==
    IF sorted = <<>> THEN <<x>>
    ELSE IF x.expected_improvement_msat > Head(sorted).expected_improvement_msat
         THEN <<x>> \o sorted
    ELSE <<Head(sorted)>> \o InsertByImprovement(x, Tail(sorted))

RECURSIVE SortByImprovement(_)
SortByImprovement(list) ==
    IF list = <<>> THEN <<>>
    ELSE InsertByImprovement(list[Len(list)],
                             SortByImprovement(SubSeq(list, 1, Len(list) - 1)))

\* algo::judge
Judge(peers, reopen_cost_sats) ==
    LET rated == SortByRate(SelectSeq(peers, LAMBDA p : p.total_channel_sats > 0))
    IN  IF peers = <<>> \/ rated = <<>> THEN <<>>
        ELSE SortByImprovement(
                 RecommendLoop(rated, WeightedMedian(rated), reopen_cost_sats * 1000, 1))

\* Iterator::min_by_key(channel_value_sats): the first of the smallest.
RECURSIVE MinByValue(_)
MinByValue(chans) ==
    IF Len(chans) = 1 THEN chans[1]
    ELSE LET rest == MinByValue(Tail(chans))
         IN  IF Head(chans).channel_value_sats <= rest.channel_value_sats
             THEN Head(chans) ELSE rest

\* The node server carrying out a close request: the channel is gone.
ServerCloseChannel(node, channel_id) ==
    SelectSeq(node, LAMBDA c : c.channel_id # channel_id)

ClosureRow(channel, rec, now) ==
    [ channel_id           |-> channel.channel_id,
      counterparty_node_id |-> rec.counterparty_node_id,
      closed_at            |-> now ]

\* execute_closure with the row written whatever close_channel returned: a
\* faulty variant, which the exactness of the audit trail must reject.
ExecuteClosure_RowAlways(cfg, snapshot, now, st, rec) ==
    LET peer_channels ==
            SelectSeq(snapshot, LAMBDA c :
                c.counterparty_node_id = rec.counterparty_node_id /\ c.is_usable)
        channel == MinByValue(peer_channels)
        kind    == IF cfg.cooperative_close THEN "CloseChannel" ELSE "ForceCloseChannel"
        chosen  == [st EXCEPT !.log[1].selected = Append(@, channel.channel_id)]
    IN  IF peer_channels = <<>> THEN {st}
        ELSE IF cfg.dry_run THEN {chosen}
        ELSE { [chosen EXCEPT
                  !.rpc = Append(@, RpcCall(kind, channel.channel_id, <<>>, TRUE)),
                  !.node = ServerCloseChannel(@, channel.channel_id),
                  !.closures = Append(@, ClosureRow(channel, rec, now))],
               [chosen EXCEPT
                  !.rpc = Append(@, RpcCall(kind, channel.channel_id, <<>>, FALSE)),
                  !.closures = Append(@, ClosureRow(channel, rec, now))] }

\* executioner::execute_closure.  st is the run so far: the node server
\* (node), the client calls (rpc), table judge_closures (closures) and the
\* entry of judgeLog (log), which notes the channel selected for closing.
ExecuteClosure(cfg, snapshot, now, st, rec) ==
    LET peer_channels ==
            SelectSeq(snapshot, LAMBDA c :
                c.counterparty_node_id = rec.counterparty_node_id /\ c.is_usable)
        channel == MinByValue(peer_channels)
        kind    == IF cfg.cooperative_close THEN "CloseChannel" ELSE "ForceCloseChannel"
        chosen  == [st EXCEPT !.log[1].selected = Append(@, channel.channel_id)]
    IN  IF peer_channels = <<>> THEN {st}
        ELSE IF cfg.dry_run THEN {chosen}
        ELSE { [chosen EXCEPT
                  !.rpc = Append(@, RpcCall(kind, channel.channel_id, <<>>, TRUE)),
                  !.node = ServerCloseChannel(@, channel.channel_id),
                  !.closures = Append(@, ClosureRow(channel, rec, now))],
               [chosen EXCEPT
                  !.rpc = Append(@, RpcCall(kind, channel.channel_id, <<>>, FALSE))] }

\* recommendations.first(), None being the empty sequence
FirstRecommendation_All(recommendations) == recommendations

FirstRecommendation(recommendations) ==
    IF recommendations = <<>> THEN <<>> ELSE << Head(recommendations) >>

\* execute_closure for each of the recommendations handed over
RECURSIVE ExecuteEach(_, _, _, _, _)
ExecuteEach(cfg, snapshot, now, st, recs) ==
    IF recs = <<>> THEN {st}
    ELSE UNION { ExecuteEach(cfg, snapshot, now, s, Tail(recs)) :
                   s \in ExecuteClosure(cfg, snapshot, now, st, Head(recs)) }

\* The entry of judgeLog: what one run gathered, recommended and selected.
JudgeDecision(peer_infos, recommendations) ==
    [ peer_infos |-> peer_infos, recommendations |-> recommendations, selected |-> <<>> ]

\* judge::run
JudgeRun(cfg, earn, costs, history, now, snapshot, st) ==
    UNION { LET recommendations ==
                    IF Len(peer_infos) < 3 THEN <<>>
                    ELSE Judge(peer_infos, cfg.estimated_reopen_cost_sats)
                noted == [st EXCEPT
                            !.log = << JudgeDecision(peer_infos, recommendations) >>]
            IN  ExecuteEach(cfg, snapshot, now, noted, FirstRecommendation(recommendations))
          : peer_infos \in Gather(cfg, earn, costs, history, now, snapshot) }

-----------------------------------------------------------------------------
(* autopilot/opener.rs: plan_opens.                                        *)

\* The body of the for loop, from index i (1-based; the source's i is i-1).
RECURSIVE PlanLoop(_, _, _, _, _, _, _)
PlanLoop(cfg, candidates, budget_sats, num_to_open, i, acc, remaining) ==
    IF i > num_to_open THEN acc
    ELSE IF remaining < cfg.min_channel_sats THEN acc            \* break
    ELSE IF candidates[i].address = "" THEN                      \* continue
        PlanLoop(cfg, candidates, budget_sats, num_to_open, i + 1, acc, remaining)
    ELSE
        LET slots_left  == num_to_open - (i - 1)
            per_channel == remaining \div Max(slots_left, 1)
            amount0     == Min(Min(Max(per_channel, cfg.min_channel_sats),
                                   cfg.max_channel_sats),
                               remaining)
            amount      == Max(Min(amount0, budget_sats \div 2),
                               cfg.min_channel_sats)
        IN  IF amount < cfg.min_channel_sats THEN acc            \* break
            ELSE PlanLoop(cfg, candidates, budget_sats, num_to_open, i + 1,
                          Append(acc, [candidate   |-> candidates[i],
                                       amount_sats |-> amount]),
                          SaturatingSub(remaining, amount))

PlanOpens(cfg, candidates, budget_sats, max_proposals) ==
    PlanLoop(cfg, candidates, budget_sats,
             Min(max_proposals, Len(candidates)), 1, <<>>, budget_sats)

-----------------------------------------------------------------------------
(* tracker/onchain_fees.rs current_regime, autopilot/decider.rs            *)
(* should_open, autopilot/opener.rs execute_open and autopilot::run.       *)
(*                                                                         *)
(* Feerates and the percentages of the configuration are whole numbers;    *)
(* a percentage of the funds is compared by cross-multiplication.          *)

RECURSIVE InsertAsc(_, _)
InsertAsc(x, sorted) ==
    IF sorted = <<>> THEN <<x>>
    ELSE IF x < Head(sorted) THEN <<x>> \o sorted
    ELSE <<Head(sorted)>> \o InsertAsc(x, Tail(sorted))

\* SELECT feerate_sat_per_vb FROM onchain_fee_samples ORDER BY feerate ASC
RECURSIVE FeeratesAsc(_)
FeeratesAsc(samples) ==
    IF samples = <<>> THEN <<>>
    ELSE InsertAsc(Head(samples).feerate_sat_per_vb, FeeratesAsc(Tail(samples)))

\* SELECT feerate_sat_per_vb ... ORDER BY sampled_at DESC LIMIT 1: the
\* feerate of a newest row, whichever the store returns among equals.
LatestFeerates(samples) ==
    { samples[k].feerate_sat_per_vb :
        k \in { i \in 1..Len(samples) :
                  \A j \in 1..Len(samples) : samples[j].sampled_at <= samples[i].sampled_at } }

(* ((pct / 100.0) * n as f64) as usize.  The quotient and the product are  *)
(* each rounded to the nearest double, so the product can fall just below  *)
(* the integer pct * n / 100 and truncate to one less.  For whole          *)
(* percentages 0..100 and n below 60 the doubles do so at exactly one      *)
(* place: 58 / 100.0 is 0.57999999999999996..., and times 50.0 it is       *)
(* 28.999999999999996, which truncates to 28.                              *)
F64_SHORT == { <<58, 50>> }

PercentileIndex_Floor(pct, n) == (pct * n) \div 100

PercentileIndex(pct, n) ==
    IF <<pct, n>> \in F64_SHORT THEN (pct * n) \div 100 - 1 ELSE (pct * n) \div 100

\* current_regime: the regimes it may return.  saved is the run_state row
\* 'fee_regime', <<>> when there is none.
CurrentRegime(samples, saved, hi_to_lo_pct, lo_to_hi_pct) ==
    LET feerates == FeeratesAsc(samples)
        n        == Len(feerates)
        lo_idx   == PercentileIndex(hi_to_lo_pct, n)
        hi_idx   == PercentileIndex(lo_to_hi_pct, n)
        lo_threshold == feerates[Min(lo_idx, n - 1) + 1]
        hi_threshold == feerates[Min(hi_idx, n - 1) + 1]
    IN  IF samples = <<>> THEN {"High"}
        ELSE { IF latest <= lo_threshold THEN "Low"
               ELSE IF latest >= hi_threshold THEN "High"
               ELSE IF saved = <<"low">> THEN "Low" ELSE "High"
               : latest \in LatestFeerates(samples) }

\* NodeState::total_funds_sats
TotalFundsSats(bal) == bal.total_onchain_balance_sats + bal.total_lightning_balance_sats

\* onchain_percent() < pct, the percentage being spendable / total * 100
\* and 100 when there are no funds
OnchainPercentBelow(bal, pct) ==
    IF TotalFundsSats(bal) = 0 THEN 100 < pct
    ELSE bal.spendable_onchain_balance_sats * 100 < pct * TotalFundsSats(bal)

OnchainPercentAbove(bal, pct) ==
    IF TotalFundsSats(bal) = 0 THEN 100 > pct
    ELSE bal.spendable_onchain_balance_sats * 100 > pct * TotalFundsSats(bal)

\* should_open: the results it may have, Some(budget) being <<budget>> and
\* None being <<>>.
ShouldOpen_NoMinPercent(cfg, bal, samples, saved) ==
    LET onchain   == bal.spendable_onchain_balance_sats
        reserve   == cfg.onchain_reserve_sats
        available == onchain - reserve
    IN  IF onchain <= reserve THEN { <<>> }
        ELSE IF available < cfg.min_channel_sats THEN { <<>> }
        ELSE IF TotalFundsSats(bal) = 0 THEN { <<>> }
        ELSE { IF regime = "Low" THEN <<available>>
               ELSE IF OnchainPercentAbove(bal, cfg.max_onchain_percent) THEN <<available>>
               ELSE <<>>
               : regime \in CurrentRegime(samples, saved, cfg.hi_to_lo_percentile,
                                          cfg.lo_to_hi_percentile) }

\* should_open with the whole spendable balance as the budget: a faulty
\* variant, which the reserve property must reject.
ShouldOpen_NoReserve(cfg, bal, samples, saved) ==
    LET onchain   == bal.spendable_onchain_balance_sats
        reserve   == cfg.onchain_reserve_sats
        available == onchain
    IN  IF onchain <= reserve THEN { <<>> }
        ELSE IF available < cfg.min_channel_sats THEN { <<>> }
        ELSE IF TotalFundsSats(bal) = 0 THEN { <<>> }
        ELSE IF OnchainPercentBelow(bal, cfg.min_onchain_percent) THEN { <<>> }
        ELSE { IF regime = "Low" THEN <<available>>
               ELSE IF OnchainPercentAbove(bal, cfg.max_onchain_percent) THEN <<available>>
               ELSE <<>>
               : regime \in CurrentRegime(samples, saved, cfg.hi_to_lo_percentile,
                                          cfg.lo_to_hi_percentile) }

ShouldOpen(cfg, bal, samples, saved) ==
    LET onchain   == bal.spendable_onchain_balance_sats
        reserve   == cfg.onchain_reserve_sats
        available == onchain - reserve
    IN  IF onchain <= reserve THEN { <<>> }
        ELSE IF available < cfg.min_channel_sats THEN { <<>> }
        ELSE IF TotalFundsSats(bal) = 0 THEN { <<>> }
        ELSE IF OnchainPercentBelow(bal, cfg.min_onchain_percent) THEN { <<>> }
        ELSE { IF regime = "Low" THEN <<available>>
               ELSE IF OnchainPercentAbove(bal, cfg.max_onchain_percent) THEN <<available>>
               ELSE <<>>
               : regime \in CurrentRegime(samples, saved, cfg.hi_to_lo_percentile,
                                          cfg.lo_to_hi_percentile) }

\* The node server carrying out an OpenChannel request: a new channel with
\* the peer, not usable until it is confirmed.
ServerOpenChannel(node, open) ==
    Append(node, [ channel_id             |-> "new-" \o open.candidate.node_id,
                   counterparty_node_id   |-> open.candidate.node_id,
                   channel_value_sats     |-> open.amount_sats,
                   outbound_capacity_msat |-> open.amount_sats * 1000,
                   is_usable              |-> FALSE,
                   channel_config         |-> <<>> ])

\* INSERT OR REPLACE INTO peer_addresses, node_id being the primary key
ReplaceAddress(table, node_id, address, now) ==
    Append(SelectSeq(table, LAMBDA r : r.node_id # node_id),
           [node_id |-> node_id, address |-> address, last_connected_at |-> now,
            source |-> "autopilot"])

OpenRow(open, now) ==
    [ channel_id           |-> "new-" \o open.candidate.node_id,
      counterparty_node_id |-> open.candidate.node_id,
      amount_sats          |-> open.amount_sats,
      opened_at            |-> now ]

\* The calls of execute_open after the dry-run test.  st is the run so
\* far: the node server (node), the client calls (rpc), the tables
\* autopilot_opens (opens) and peer_addresses (addresses), and the entry of
\* autoLog (log).  The result pairs the run with Ok (TRUE) or Err (FALSE).
ConnectAndOpen(cfg, now, st, open) ==
    UNION { LET tried == [st EXCEPT !.rpc = Append(@, RpcCall("ConnectPeer",
                                        open.candidate.node_id, <<>>, connected))]
            IN  { [ st |-> [tried EXCEPT
                      !.rpc = Append(@, RpcCall("OpenChannel", open.candidate.node_id,
                                                <<open.amount_sats>>, TRUE)),
                      !.node = ServerOpenChannel(@, open),
                      !.addresses = ReplaceAddress(@, open.candidate.node_id,
                                                   open.candidate.address, now),
                      !.opens = Append(@, OpenRow(open, now))],
                    ok |-> TRUE ],
                  [ st |-> [tried EXCEPT
                      !.rpc = Append(@, RpcCall("OpenChannel", open.candidate.node_id,
                                                <<open.amount_sats>>, FALSE))],
                    ok |-> FALSE ] }
          : connected \in BOOLEAN }

ExecuteOpen_NoDryRun(cfg, now, st, open) == ConnectAndOpen(cfg, now, st, open)

\* execute_open
ExecuteOpen(cfg, now, st, open) ==
    IF cfg.dry_run THEN { [st |-> st, ok |-> TRUE] }
    ELSE ConnectAndOpen(cfg, now, st, open)

\* The loop of autopilot::run without the `?`: a faulty variant that goes
\* on to the next planned open after a failed one.
RECURSIVE OpenLoop_KeepGoing(_, _, _, _, _)
OpenLoop_KeepGoing(cfg, now, st, opens, i) ==
    IF i > Len(opens) THEN {st}
    ELSE UNION { OpenLoop_KeepGoing(cfg, now, r.st, opens, i + 1)
                 : r \in ExecuteOpen(cfg, now, st, opens[i]) }

\* for open in &plan { execute_open(..).await?; }, from index i
RECURSIVE OpenLoop(_, _, _, _, _)
OpenLoop(cfg, now, st, opens, i) ==
    IF i > Len(opens) THEN {st}
    ELSE UNION { IF r.ok THEN OpenLoop(cfg, now, r.st, opens, i + 1) ELSE {r.st}
                 : r \in ExecuteOpen(cfg, now, st, opens[i]) }

\* The entry of autoLog: the budget decided and the opens planned.
AutopilotDecision(budget, opens) == [budget |-> budget, plan |-> opens]

\* max_proposals without the backoff: a faulty variant, which the bound on
\* the length of a plan must reject.
MaxProposals_NoBackoff(cfg, snapshot) == cfg.max_proposals

\* Phase 3 of autopilot::run: one proposal once the node has
\* min_channels_to_backoff usable channels.
MaxProposals(cfg, snapshot) ==
    IF Len(SelectSeq(snapshot, IsUsable)) >= cfg.min_channels_to_backoff
    THEN 1 ELSE cfg.max_proposals

\* autopilot::run.  candidates is what get_candidates returned.
AutopilotRun(cfg, snapshot, bal, samples, saved, candidates, now, st) ==
    UNION { LET max_proposals == MaxProposals(cfg, snapshot)
                opens ==
                    IF budget = <<>> \/ candidates = <<>> THEN <<>>
                    ELSE PlanOpens(cfg, candidates, budget[1], max_proposals)
                noted == [st EXCEPT !.log = << AutopilotDecision(budget, opens) >>]
            IN  OpenLoop(cfg, now, noted, opens, 1)
          : budget \in ShouldOpen(cfg, bal, samples, saved) }

-----------------------------------------------------------------------------
(* The planner on its own: the arguments are drawn, then plan_opens runs.  *)

OpenerIdle ==
    /\ planArgs = [candidates |-> <<>>, budget_sats |-> 0, max_proposals |-> 0]
    /\ plan = <<>>
    /\ planned = FALSE

MaxCandidates == 3

CandidateNodes == <<"n1", "n2", "n3", "n4">>

\* Candidate lists: node i of CandidateNodes, with or without an address.
CandidateLists ==
    UNION { { [i \in 1..n |-> [node_id |-> CandidateNodes[i],
                               address |-> IF hasAddr[i] THEN "host:9735" ELSE ""]]
              : hasAddr \in [1..n -> BOOLEAN] }
            : n \in 0..MaxCandidates }

PlanBudgets == {50000, 150000, 199999, 200000, 250000, 400000, 500000, 1000000, 40000000}

PlanConfigs ==
    { [DefaultConfig EXCEPT !.min_channel_sats = lo, !.max_channel_sats = hi]
      : lo \in {20000, 100000}, hi \in {100000, 200000, 16777215} }

-----------------------------------------------------------------------------
(* The card game on its own: callers of update_tick, record_earnings and   *)
(* ensure_initialized, over a store that is new or was left by an earlier  *)
(* run of the daemon.                                                      *)

MaxCalls == 3

FeeValues == {1}

NoEnds == [p \in Peers |-> NotEnded]

EmptyStore ==
    [ center |-> [p \in Peers |-> NoRow],
      cards  |-> [p \in Peers |-> <<>>],
      decks  |-> [p \in Peers |-> 0],
      ended  |-> NoEnds ]

PriceIdle ==
    /\ price_theory_center = EmptyStore.center
    /\ price_theory_cards = EmptyStore.cards
    /\ decks_created = EmptyStore.decks
    /\ round_ended = NoEnds
    /\ pt_calls = 0
    /\ last_op = "none"
    /\ tick_peers = <<>>

\* The store as the current call finds it.
PriceStore ==
    [ center |-> price_theory_center,
      cards  |-> price_theory_cards,
      decks  |-> decks_created,
      ended  |-> [p \in DOMAIN price_theory_center |-> NotEnded] ]

PriceConfigs ==
    { [DefaultConfig EXCEPT !.price_theory_max_step = sl[1],
                            !.price_theory_card_lifetime_ticks = sl[2]]
      : sl \in { <<0, 1>>, <<1, 1>>, <<1, 2>> } }

\* The centers of the rounds found in progress: both ends of the price range
\* for one-tick cards, the upper end for longer-lived ones.
StartCenters(cfg) ==
    IF cfg.price_theory_card_lifetime_ticks <= 1
    THEN {-MAX_PRICE, MAX_PRICE}
    ELSE {MAX_PRICE}

\* update_tick for peer p, tick after tick, until the last card of the deck
\* has been drawn.
RECURSIVE PlayToLastCard(_, _, _)
PlayToLastCard(pt, p, cfg) ==
    IF RowsAt(pt, p, POS_DECK) = {} /\ InPlayRows(pt, p) # {} THEN {pt}
    ELSE UNION { PlayToLastCard(q, p, cfg) : q \in TickPeerFrom(pt, p, cfg) }

\* A store an earlier run left: peer pA is in a round around center c with
\* the last card of its deck in play.  A center other than 0 needs step >= 1.
StartStores(cfg) ==
    {EmptyStore} \cup
    IF cfg.price_theory_max_step < 1 THEN {}
    ELSE UNION { UNION { PlayToLastCard(d, "pA", cfg)
                         : d \in CreateDeck([EmptyStore EXCEPT !.center["pA"] = <<c>>],
                                            "pA", c, cfg) }
                 : c \in StartCenters(cfg) }

\* The lists update_tick is called with: empty, one peer, one peer twice
\* (two usable channels to it), two peers in either order.
PeerLists ==
    { <<>> } \cup { <<p>> : p \in Peers } \cup { <<p, q>> : p \in Peers, q \in Peers }

-----------------------------------------------------------------------------
(* The fee controller on its own: fees::run cycle after cycle on the        *)
(* channels the node server reports, whose balances move between cycles.   *)

MaxFeeCycles == 3

NodeIdle ==
    /\ channels = <<>>
    /\ rpcLog = <<>>
    /\ cycles = 0

FeeIdle ==
    /\ feeLog = <<>>
    /\ feePrev = <<>>

Channel(id, peer, value_sats, outbound_msat, usable, channel_config) ==
    [ channel_id             |-> id,
      counterparty_node_id   |-> peer,
      channel_value_sats     |-> value_sats,
      outbound_capacity_msat |-> outbound_msat,
      is_usable              |-> usable,
      channel_config         |-> channel_config ]

DefaultPair ==
    << [forwarding_fee_base_msat |-> 1000, forwarding_fee_proportional_millionths |-> 100] >>

\* The outbound balances a channel of the given size moves between.
Outbounds(value_sats) == {0, value_sats * 450, value_sats * 1000}

\* The channel lists of the node: one channel; one peer with two channels;
\* a usable channel next to an unusable one and one of value 0; no usable
\* channel at all.
FeeChannelLists ==
    { << Channel("c1", "pA", 1000000, o, TRUE, cc) >>
      : o \in Outbounds(1000000), cc \in {NoConfig, DefaultPair} }
    \cup
    { << Channel("c1", "pA", 1000000, 1000000000, TRUE, DefaultPair),
         Channel("c2", "pA", 500000, 0, TRUE, NoConfig) >>,
      << Channel("c1", "pA", 1000000, 450000000, FALSE, NoConfig),
         Channel("c2", "pB", 0, 0, TRUE, NoConfig),
         Channel("c3", "pB", 500000, 500000000, TRUE, DefaultPair) >>,
      << Channel("c1", "pA", 1000000, 450000000, FALSE, NoConfig) >> }

\* What ListChannels returns one cycle later: the same channels, payments
\* having moved the balance of at most one usable channel.
Snapshots(node) ==
    {node} \cup
    UNION { { [node EXCEPT ![k].outbound_capacity_msat = o]
              : o \in Outbounds(node[k].channel_value_sats) }
            : k \in { j \in 1..Len(node) : node[j].is_usable } }

\* Fee configurations: short rounds so that prices change within a few
\* cycles, then one departure from that at a time.
FeeBaseConfig ==
    [DefaultConfig EXCEPT !.price_theory_max_step = 1,
                          !.price_theory_card_lifetime_ticks = 2]

FeeConfigs ==
    { FeeBaseConfig,
      [FeeBaseConfig EXCEPT !.dry_run = TRUE],
      [FeeBaseConfig EXCEPT !.default_ppm = 50000],
      [FeeBaseConfig EXCEPT !.default_ppm = 0, !.default_base_msat = 0],
      [FeeBaseConfig EXCEPT !.balance_modder_enabled = FALSE],
      [FeeBaseConfig EXCEPT !.price_theory_enabled = FALSE],
      [FeeBaseConfig EXCEPT !.preferred_bin_size_sats = 0] }

\* The runs: every channel list under the base configuration, a one-channel
\* list under the others.
FeeInputs ==
    { <<FeeBaseConfig, l>> : l \in FeeChannelLists }
    \cup
    { <<c, l>> : c \in FeeConfigs,
                l \in { m \in FeeChannelLists :
                          /\ Len(m) = 1
                          /\ m[1].is_usable
                          /\ m[1].outbound_capacity_msat = 1000000000
                          /\ m[1].channel_config # NoConfig } }

-----------------------------------------------------------------------------
(* The rebalancer on its own: rebalancer::run cycle after cycle over a     *)
(* node with depleted and full channels and an earnings history.           *)

MaxRebalCycles == 2

EarnIdle ==
    /\ earnings = <<>>
    /\ rebalance_costs = <<>>
    /\ today = 0

RebalIdle == rebalLog = <<>>

JudgeIdle ==
    /\ channel_history = <<>>
    /\ judge_closures = <<>>
    /\ judgeLog = <<>>

AutoIdle ==
    /\ node_balances = [spendable_onchain_balance_sats |-> 0,
                        total_onchain_balance_sats     |-> 0,
                        total_lightning_balance_sats   |-> 0]
    /\ onchain_fee_samples = <<>>
    /\ fee_regime = <<>>
    /\ autopilot_opens = <<>>
    /\ peer_addresses = <<>>
    /\ autoLog = <<>>

SchedIdle ==
    /\ tick_count = 0
    /\ force_all = FALSE

TrackIdle ==
    /\ trackLog = <<>>

IngestIdle ==
    /\ forwards = <<>>
    /\ sync_state = <<>>
    /\ ingested = <<>>

DaemonIdle ==
    /\ gates = <<>>
    /\ daemon_pc = "idle"
    /\ shutdown_tx = FALSE
    /\ node_epoch = 0
    /\ node_state = <<>>
    /\ phaseLog = <<>>
    /\ daemonLog = <<>>

RegimeIdle ==
    /\ regimeLog = <<>>

CandIdle ==
    /\ candidate_list = <<>>

HystIdle ==
    /\ regime_trace = [outside |-> <<>>, used |-> <<>>, in_band |-> FALSE]

AlgoIdle ==
    /\ algo_peers = <<>>
    /\ algo_cost = 0
    /\ algo_out = <<>>

DepletedIds == <<"d1", "d2", "d3", "d4", "d5", "d6", "d7", "d8", "d9", "d10", "d11">>

FullIds == <<"s1", "s2", "s3", "s4", "s5", "s6", "s7", "s8", "s9", "s10", "s11">>

\* The peer of channel "d3" is "peer-d3": one channel per peer.
PeerOfChannel ==
    [ id \in { DepletedIds[i] : i \in 1..Len(DepletedIds) }
             \cup { FullIds[i] : i \in 1..Len(FullIds) } |->
        CHOOSE p \in { "peer-d1", "peer-d2", "peer-d3", "peer-d4", "peer-d5", "peer-d6",
                       "peer-d7", "peer-d8", "peer-d9", "peer-d10", "peer-d11",
                       "peer-s1", "peer-s2", "peer-s3", "peer-s4", "peer-s5", "peer-s6",
                       "peer-s7", "peer-s8", "peer-s9", "peer-s10", "peer-s11" } :
            p = "peer-" \o id ]

\* nd channels of 1 000 000 sat at 10 % outbound followed by ns channels of
\* 1 000 000 sat at 90 % (or, for the last one, exactly at the source
\* threshold of 27.5 %, which makes it neither source nor destination).
RebalChannels(nd, ns, lastAtThreshold) ==
    [ i \in 1..nd |->
        Channel(DepletedIds[i], PeerOfChannel[DepletedIds[i]], 1000000, 100000000,
                TRUE, DefaultPair) ]
    \o
    [ i \in 1..ns |->
        Channel(FullIds[i], PeerOfChannel[FullIds[i]], 1000000,
                IF lastAtThreshold /\ i = ns THEN 275000000 ELSE 900000000,
                TRUE, DefaultPair) ]

RebalChannelLists ==
    { RebalChannels(1, 1, FALSE), RebalChannels(2, 3, TRUE), RebalChannels(10, 10, FALSE),
      RebalChannels(11, 10, FALSE), RebalChannels(10, 11, TRUE),
      RebalChannels(2, 0, FALSE), RebalChannels(0, 1, FALSE) }

EarningRow(channel_id, day, fee_msat, dir) ==
    [ channel_id           |-> channel_id,
      counterparty_node_id |-> PeerOfChannel[channel_id],
      day_bucket           |-> day,
      fee_msat             |-> fee_msat,
      amount_msat          |-> 10 * fee_msat,
      direction            |-> dir ]

StartDay == 40

\* Earnings histories: high out-earnings on the depleted channels d2 and d1
\* (d2 ahead); modest ones; earnings that left the 30-day window; none.
EarningTables ==
    { << EarningRow("d1", StartDay, 40000000, "out"),
         EarningRow("d2", StartDay - 1, 30000000, "out"),
         EarningRow("d2", StartDay, 30000000, "out"),
         EarningRow("s1", StartDay, 5000, "in") >>,
      << EarningRow("d1", StartDay, 400000, "out"),
         EarningRow("d2", StartDay, 700000, "out"),
         EarningRow("d2", StartDay, 900000, "in") >>,
      << EarningRow("d1", StartDay - EARNINGS_WINDOW_DAYS - 1, 40000000, "out"),
         EarningRow("d2", StartDay - EARNINGS_WINDOW_DAYS, 500000, "out") >>,
      << >> }

\* Costs already booked: none, or more than d1 earned.
CostTables ==
    { << >>, << EarningRow("d1", StartDay - 2, 50000000, "out") >> }

RebalConfigs ==
    { DefaultConfig,
      [DefaultConfig EXCEPT !.dry_run = TRUE],
      [DefaultConfig EXCEPT !.max_total_fee_sats = 1000],
      [DefaultConfig EXCEPT !.max_total_fee_sats = 60000, !.max_fee_ppm = 50000],
      [DefaultConfig EXCEPT !.max_total_fee_sats = 0] }

-----------------------------------------------------------------------------
(* The inputs of the judge: nodes with two to four peers, small enough     *)
(* for every product of an earning and a capacity to stay an integer of    *)
(* TLC.                                                                    *)

MaxJudgeCycles == 2

JudgeChannel(id, peer, value_sats, usable) ==
    Channel(id, peer, value_sats, value_sats * 500, usable, DefaultPair)

JudgeChannelLists ==
    { << JudgeChannel("j1", "pA", 1000, TRUE), JudgeChannel("j2", "pB", 2000, TRUE),
         JudgeChannel("j3", "pC", 3000, TRUE), JudgeChannel("j4", "pD", 1000, TRUE) >>,
      << JudgeChannel("j1", "pA", 3000, TRUE), JudgeChannel("j2", "pA", 1000, TRUE),
         JudgeChannel("j3", "pB", 2000, TRUE), JudgeChannel("j4", "pC", 2000, TRUE) >>,
      << JudgeChannel("j1", "pA", 1000, TRUE), JudgeChannel("j2", "pB", 1000, FALSE),
         JudgeChannel("j3", "pC", 1000, TRUE), JudgeChannel("j4", "pD", 1000, TRUE) >>,
      << JudgeChannel("j1", "pA", 1000, TRUE), JudgeChannel("j2", "pB", 2000, TRUE) >> }

\* What the channels of a list earned, in msat, in list order.
JudgeFees ==
    { <<0, 0, 0, 0>>, <<0, 1000, 9000, 3000>>, <<2000, 2000, 6000, 2000>>,
      <<500, 0, 9000, 0>> }

\* One out-earning per channel, on the day before StartDay; the last
\* channel's earning is older than the evaluation window in the second.
JudgeEarningTables(list) ==
    { [ k \in 1..Len(list) |->
          [ channel_id           |-> list[k].channel_id,
            counterparty_node_id |-> list[k].counterparty_node_id,
            day_bucket           |-> IF old /\ k = Len(list) THEN 0 ELSE StartDay - 1,
            fee_msat             |-> fees[k],
            amount_msat          |-> 10 * fees[k],
            direction            |-> "out" ] ]
      : fees \in JudgeFees, old \in BOOLEAN }

HistoryRow(channel, first_seen_at, last_seen_at, is_open) ==
    [ channel_id           |-> channel.channel_id,
      counterparty_node_id |-> channel.counterparty_node_id,
      channel_value_sats   |-> channel.channel_value_sats,
      first_seen_at        |-> first_seen_at,
      last_seen_at         |-> last_seen_at,
      is_open              |-> is_open ]

\* Every channel first seen on day 0; or the first one only five days ago;
\* or no history at all.
HistoryTables(list) ==
    { [ k \in 1..Len(list) |-> HistoryRow(list[k], 0, StartDay, TRUE) ],
      [ k \in 1..Len(list) |->
          HistoryRow(list[k], IF k = 1 THEN StartDay - 5 ELSE 0, StartDay, TRUE) ],
      << >> }

JudgeBaseConfig == [DefaultConfig EXCEPT !.judge_enabled = TRUE, !.min_age_days = 10]

JudgeConfigs ==
    { [JudgeBaseConfig EXCEPT !.estimated_reopen_cost_sats = 0],
      [JudgeBaseConfig EXCEPT !.estimated_reopen_cost_sats = 0, !.cooperative_close = FALSE],
      [JudgeBaseConfig EXCEPT !.estimated_reopen_cost_sats = 1],
      [JudgeBaseConfig EXCEPT !.estimated_reopen_cost_sats = 0, !.dry_run = TRUE],
      [JudgeBaseConfig EXCEPT !.estimated_reopen_cost_sats = 0, !.min_age_days = 90],
      JudgeBaseConfig }

-----------------------------------------------------------------------------
(* tracker/channels.rs: update.                                            *)
(*                                                                         *)
(* The function runs its statements one by one on the connection, which    *)
(* commits each of them; a statement that fails ends the call with Err     *)
(* and leaves the rows as the statements before it wrote them.             *)

\* SELECT channel_id FROM channel_history WHERE is_open = 1
KnownOpen(history) ==
    { history[k].channel_id : k \in { i \in 1..Len(history) : history[i].is_open } }

\* The ids of a snapshot (the set seen).
SeenIds_Empty(snapshot) == {}

SeenIds(snapshot) == { snapshot[k].channel_id : k \in 1..Len(snapshot) }

\* UPDATE channel_history SET last_seen_at = now WHERE channel_id = id
TouchRow(history, id, now) ==
    [ k \in 1..Len(history) |->
        IF history[k].channel_id = id
        THEN [history[k] EXCEPT !.last_seen_at = now] ELSE history[k] ]

\* INSERT OR REPLACE INTO channel_history ... VALUES (.., now, now, 1):
\* channel_id is the primary key, a row of that id is replaced.
InsertOrReplaceRow(history, ch, now) ==
    Append(SelectSeq(history, LAMBDA r : r.channel_id # ch.channel_id),
           HistoryRow(ch, now, now, TRUE))

\* UPDATE channel_history SET is_open = 0, last_seen_at = now WHERE channel_id = id
CloseRow_KeepsOpen(history, id, now) ==
    [ k \in 1..Len(history) |->
        IF history[k].channel_id = id
        THEN [history[k] EXCEPT !.last_seen_at = now] ELSE history[k] ]

CloseRow(history, id, now) ==
    [ k \in 1..Len(history) |->
        IF history[k].channel_id = id
        THEN [history[k] EXCEPT !.is_open = FALSE, !.last_seen_at = now] ELSE history[k] ]

\* The statements of one call, in the order the call executes them: one
\* per channel of the snapshot, then one per known-open channel that was
\* not seen, in an iteration order of the HashSet known_open.
UpdateStatements(history, snapshot) ==
    LET known_open == KnownOpen(history)
        forChannel(ch) ==
            IF ch.channel_id \in known_open
            THEN [op |-> "touch", id |-> ch.channel_id, ch |-> <<ch>>]
            ELSE [op |-> "insert", id |-> ch.channel_id, ch |-> <<ch>>]
        first == [k \in 1..Len(snapshot) |-> forChannel(snapshot[k])]
        gone  == known_open \ SeenIds(snapshot)
    IN  { first \o [k \in 1..Len(order) |->
                       [op |-> "close", id |-> order[k], ch |-> <<>>]]
          : order \in IterationOrders(gone) }

ApplyStatement(history, stmt, now) ==
    IF stmt.op = "touch" THEN TouchRow(history, stmt.id, now)
    ELSE IF stmt.op = "insert" THEN InsertOrReplaceRow(history, stmt.ch[1], now)
    ELSE CloseRow(history, stmt.id, now)

\* The first n statements applied in order.
RECURSIVE ApplyFirst(_, _, _, _)
ApplyFirst(history, stmts, n, now) ==
    IF n = 0 THEN history
    ELSE ApplyStatement(ApplyFirst(history, stmts, n - 1, now), stmts[n], now)

\* channels::update: the table it may leave and whether it returned Ok.
\* The call fails at any of its statements, or at none.
ChannelsUpdate(history, snapshot, now) ==
    UNION { { [history |-> ApplyFirst(history, stmts, Len(stmts), now), ok |-> TRUE] }
            \cup { [history |-> ApplyFirst(history, stmts, n, now), ok |-> FALSE]
                   : n \in 0..(Len(stmts) - 1) }
            \cup { [history |-> history, ok |-> FALSE] }
          : stmts \in UpdateStatements(history, snapshot) }

-----------------------------------------------------------------------------
(* tracker/earnings.rs: ingest.  The node server keeps the forwarded        *)
(* payments in a list and hands them out in pages of PAGE_SIZE; a page     *)
(* token names the position its page starts at.  The response of the last  *)
(* page may or may not carry a next_page_token.                            *)

PAGE_SIZE == 2

PageToken(index) == [index |-> index, token |-> "fwd"]

\* ListForwardedPayments(page_token): the possible responses.
ServerForwardedPayments(list, page_token) ==
    LET from == IF page_token = <<>> THEN 0 ELSE page_token[1].index
        upto == Min(from + PAGE_SIZE, Len(list))
        page == SubSeq(list, from + 1, upto)
    IN  IF upto < Len(list)
        THEN { [forwarded_payments |-> page, next_page_token |-> << PageToken(upto) >>] }
        ELSE { [forwarded_payments |-> page, next_page_token |-> << >>],
               [forwarded_payments |-> page, next_page_token |-> << PageToken(upto) >>] }

\* format!("{}:{}", token.index, token.token): the two parts of the value.
SavePageToken(token) == << <<token.index, token.token>> >>

\* splitn(2, ':') of the saved value; no row gives None.
LoadPageToken(saved) ==
    IF saved = <<>> THEN <<>>
    ELSE << [index |-> saved[1][1], token |-> saved[1][2]] >>

\* INSERT INTO earnings ... ON CONFLICT(channel_id, day_bucket, direction)
\* DO UPDATE SET fee_earned_msat = fee_earned_msat + fee, amount likewise.
UpsertEarning(table, channel_id, node_id, bucket, fee_msat, amount_msat, dir) ==
    IF \E k \in 1..Len(table) : /\ table[k].channel_id = channel_id
                                /\ table[k].day_bucket = bucket
                                /\ table[k].direction = dir
    THEN [ k \in 1..Len(table) |->
             IF /\ table[k].channel_id = channel_id
                /\ table[k].day_bucket = bucket
                /\ table[k].direction = dir
             THEN [table[k] EXCEPT !.fee_msat = @ + fee_msat,
                                   !.amount_msat = @ + amount_msat]
             ELSE table[k] ]
    ELSE Append(table, [ channel_id           |-> channel_id,
                         counterparty_node_id |-> node_id,
                         day_bucket           |-> bucket,
                         fee_msat             |-> fee_msat,
                         amount_msat          |-> amount_msat,
                         direction            |-> dir ])

\* The body of the loop over one forwarded payment.
IngestPayment(st, fwd, bucket) ==
    LET fee_msat    == IF fwd.total_fee_earned_msat = <<>> THEN 0
                       ELSE fwd.total_fee_earned_msat[1]
        amount_msat == IF fwd.outbound_amount_forwarded_msat = <<>> THEN 0
                       ELSE fwd.outbound_amount_forwarded_msat[1]
        t1 == IF fwd.prev_channel_id # ""
              THEN UpsertEarning(st.earnings, fwd.prev_channel_id, fwd.prev_node_id,
                                 bucket, fee_msat, amount_msat, "in")
              ELSE st.earnings
        t2 == IF fwd.next_channel_id # ""
              THEN UpsertEarning(t1, fwd.next_channel_id, fwd.next_node_id,
                                 bucket, fee_msat, amount_msat, "out")
              ELSE t1
    IN  [st EXCEPT !.earnings = t2, !.counts[fwd.id] = @ + 1]

RECURSIVE IngestPage(_, _, _, _)
IngestPage(st, page, k, bucket) ==
    IF k > Len(page) THEN st
    ELSE IngestPage(IngestPayment(st, page[k], bucket), page, k + 1, bucket)

\* The loop of ingest from page_token on: the set of outcomes.  A call of
\* list_forwarded_payments that fails ends ingest with Err, and what the
\* pages before it wrote stays.
RECURSIVE IngestLoop(_, _, _, _)
IngestLoop(st, list, page_token, bucket) ==
    { [st EXCEPT !.ok = FALSE] }
    \cup UNION {
        LET st1 == IngestPage(st, resp.forwarded_payments, 1, bucket)
        IN  IF resp.next_page_token # <<>>
            THEN LET st2 == [st1 EXCEPT !.sync = SavePageToken(resp.next_page_token[1])]
                 IN  IF resp.forwarded_payments = <<>> THEN { st2 }
                     ELSE IngestLoop(st2, list, resp.next_page_token, bucket)
            ELSE { st1 }
        : resp \in ServerForwardedPayments(list, page_token) }

Ingest(table, saved, counts, list, bucket) ==
    IngestLoop([earnings |-> table, sync |-> saved, counts |-> counts, ok |-> TRUE],
               list, LoadPageToken(saved), bucket)

-----------------------------------------------------------------------------
(* tracker/onchain_fees.rs: update and save_regime.  Time is counted in    *)
(* days.  fetched is the provider's answer, <<>> when the request failed.  *)

SAMPLE_RETENTION_DAYS == 7

\* update: the tables it may leave and whether a sample was written.
OnchainFeesUpdate(samples, provider, fetched, now) ==
    IF provider = "none" \/ fetched = <<>>
    THEN { [samples |-> samples, sampled |-> FALSE, ok |-> TRUE] }
    ELSE LET inserted == Append(samples, [feerate_sat_per_vb |-> fetched[1],
                                          sampled_at |-> now])
             pruned   == SelectSeq(inserted,
                             LAMBDA r : ~(r.sampled_at < now - SAMPLE_RETENTION_DAYS))
         IN  { [samples |-> samples,  sampled |-> FALSE, ok |-> FALSE],
               [samples |-> inserted, sampled |-> TRUE,  ok |-> FALSE],
               [samples |-> pruned,   sampled |-> TRUE,  ok |-> TRUE] }

\* current_regime: whether the latest feerate lies strictly between
\* lo_threshold and hi_threshold.
InHysteresisBand(samples, hi_to_lo_pct, lo_to_hi_pct) ==
    LET feerates == FeeratesAsc(samples)
        n        == Len(feerates)
        lo_idx   == PercentileIndex(hi_to_lo_pct, n)
        hi_idx   == PercentileIndex(lo_to_hi_pct, n)
        lo_threshold == feerates[Min(lo_idx, n - 1) + 1]
        hi_threshold == feerates[Min(hi_idx, n - 1) + 1]
    IN  /\ samples # <<>>
        /\ \A latest \in LatestFeerates(samples) :
              lo_threshold < latest /\ latest < hi_threshold

\* save_regime: the run_state row 'fee_regime'.
SaveRegime(regime) == IF regime = "Low" THEN <<"low">> ELSE <<"high">>

-----------------------------------------------------------------------------
(* autopilot/candidate.rs: get_candidates.  A seed string is kept as the   *)
(* parts splitn(2, '@') cuts it into.  A score s is carried as 10^4 * s^2, *)
(* which keeps the order: 100.0 for a seed node is 10^8, 10.0 for a        *)
(* hardcoded node is 10^6, sqrt(earned) / 100 for an earnings node is      *)
(* earned.  The node ids of the hardcoded list are named for their owners. *)

HARDCODED_NODES ==
    << <<"acinq", "3.33.236.230:9735">>,     <<"kraken", "52.13.118.208:9735">>,
       <<"river", "104.196.249.140:9735">>,  <<"wos", "170.75.163.209:9735">>,
       <<"bitfinex", "3.33.236.230:9735">>,  <<"opennode", "18.221.23.28:9735">>,
       <<"fold", "35.238.153.25:9735">>,     <<"boltz", "24.249.146.89:9735">>,
       <<"zerofee", "203.132.95.10:9735">>,  <<"lnbig", "138.68.14.104:9735">> >>

SEED_SCORE == 100000000

HARDCODED_SCORE == 1000000

EARNINGS_LIMIT == 20

Candidate(node_id, address, score, source) ==
    [node_id |-> node_id, address |-> address, score |-> score, source |-> source]

\* parse_node_address: Some((node_id, address)) for "node_id@address".
ParseNodeAddress(seed) == IF Len(seed) = 2 THEN << seed >> ELSE << >>

IsBlacklisted(cfg, node_id) == \E k \in 1..Len(cfg.blacklist) : cfg.blacklist[k] = node_id

\* SUM(fee_earned_msat) of the rows of one node
TotalEarnedOf(table, node_id) ==
    SeqSum([k \in 1..Len(table) |->
               IF table[k].counterparty_node_id = node_id THEN table[k].fee_msat ELSE 0])

\* get_earnings_candidates: the lists the query and the filter may give;
\* rows of equal sums come in either order.
EarningsCandidates(table, existing_peers) ==
    LET nodes == { n \in { table[k].counterparty_node_id : k \in 1..Len(table) } :
                     TotalEarnedOf(table, n) > 0 }
        orders == { o \in IterationOrders(nodes) :
                      \A i, j \in 1..Len(o) :
                          i < j => TotalEarnedOf(table, o[i]) >= TotalEarnedOf(table, o[j]) }
    IN  { LET rows == SubSeq(o, 1, Min(EARNINGS_LIMIT, Len(o)))
              kept == SelectSeq(rows, LAMBDA n : n \notin existing_peers)
          IN  [k \in 1..Len(kept) |->
                 Candidate(kept[k], "", TotalEarnedOf(table, kept[k]), "Earnings")]
          : o \in orders }

\* fetch_external_candidates: a placeholder that returns no candidate.
FetchExternalCandidates(url) == << >>

\* The loop over HARDCODED_NODES from entry k on.
RECURSIVE AddHardcoded(_, _, _, _)
AddHardcoded(cfg, existing_peers, acc, k) ==
    IF k > Len(HARDCODED_NODES) THEN acc
    ELSE LET node_id == HARDCODED_NODES[k][1]
         IN  IF /\ node_id \notin existing_peers
                /\ ~IsBlacklisted(cfg, node_id)
                /\ ~\E i \in 1..Len(acc) : acc[i].node_id = node_id
             THEN AddHardcoded(cfg, existing_peers,
                      Append(acc, Candidate(node_id, HARDCODED_NODES[k][2],
                                            HARDCODED_SCORE, "Hardcoded")), k + 1)
             ELSE AddHardcoded(cfg, existing_peers, acc, k + 1)

\* sort_by score descending; the sort is stable.
RECURSIVE InsertByScore(_, _)
InsertByScore(x, sorted) ==
    IF sorted = <<>> THEN <<x>>
    ELSE IF Head(sorted).score >= x.score
         THEN <<Head(sorted)>> \o InsertByScore(x, Tail(sorted))
    ELSE <<x>> \o sorted

RECURSIVE SortByScore(_)
SortByScore(list) ==
    IF list = <<>> THEN <<>>
    ELSE InsertByScore(list[Len(list)], SortByScore(SubSeq(list, 1, Len(list) - 1)))

\* get_candidates: the lists it may return.
GetCandidates(cfg, table, existing_peers) ==
    LET parsed == SelectSeq(cfg.seed_nodes, LAMBDA seed : ParseNodeAddress(seed) # <<>>)
        seeds  == SelectSeq(parsed, LAMBDA seed : /\ seed[1] \notin existing_peers
                                                  /\ ~IsBlacklisted(cfg, seed[1]))
        source1 == [k \in 1..Len(seeds) |->
                      Candidate(seeds[k][1], seeds[k][2], SEED_SCORE, "SeedNode")]
        external == IF cfg.ranking_api_url # ""
                    THEN SelectSeq(FetchExternalCandidates(cfg.ranking_api_url),
                                   LAMBDA c : /\ c.node_id \notin existing_peers
                                              /\ ~IsBlacklisted(cfg, c.node_id))
                    ELSE << >>
    IN  { SortByScore(AddHardcoded(cfg, existing_peers,
              source1 \o SelectSeq(source2, LAMBDA c : ~IsBlacklisted(cfg, c.node_id))
                      \o external, 1))
          : source2 \in EarningsCandidates(table, existing_peers) }

-----------------------------------------------------------------------------
(* scheduler.rs: the gates of the periodic engines.  trigger is the        *)
(* outcome of the rebalancer's random draw against trigger_probability.    *)

AUTOPILOT_INTERVAL == 6

REBALANCER_INTERVAL == 12

JUDGE_INTERVAL == 36

ShouldRunAutopilot(tick, force) == force \/ tick % AUTOPILOT_INTERVAL = 0

ShouldRunRebalancer_NoInterval(tick, force, trigger) == force \/ trigger

ShouldRunRebalancer(tick, force, trigger) ==
    force \/ (tick % REBALANCER_INTERVAL = 0 /\ trigger)

ShouldRunJudge(tick, force) == force \/ tick % JUDGE_INTERVAL = 0

\* rng.gen::<f64>() < trigger_probability: the draw lies in [0, 1), the
\* probability is given in hundredths.
TriggerOutcomes(probability) ==
    { b \in BOOLEAN : (b => probability > 0) /\ (~b => probability < 100) }

-----------------------------------------------------------------------------
(* main.rs: run_daemon and run_cycle as a control loop.  A phase is one    *)
(* step: between two phases the interrupt task may send the shutdown value *)
(* and the node may change.  What an engine does to the node and the store *)
(* is left to the engines; here a phase returns Ok or Err.                 *)

PhaseOrder == <<"collect", "trackers", "fees", "autopilot", "rebalancer", "judge">>

CyclePhases == { PhaseOrder[k] : k \in 1..Len(PhaseOrder) }

Engines == {"fees", "autopilot", "rebalancer", "judge"}

PhaseRank(phase) == CHOOSE k \in 1..Len(PhaseOrder) : PhaseOrder[k] = phase

\* Where run_cycle goes after a phase that returned ok: collect and the
\* trackers end the cycle with `?`, an engine's error is logged.
AfterPhase_Abort(phase, ok) ==
    IF ~ok \/ phase = "judge" THEN "tick"
    ELSE PhaseOrder[PhaseRank(phase) + 1]

\* run_cycle with the error of the trackers logged like an engine's: a
\* faulty variant, which goes on to the engines after a failed tracker.
AfterPhase_TrackersLogged(phase, ok) ==
    IF phase = "collect" /\ ~ok THEN "tick"
    ELSE IF phase = "judge" THEN "tick"
    ELSE PhaseOrder[PhaseRank(phase) + 1]

AfterPhase(phase, ok) ==
    IF phase \in {"collect", "trackers"} /\ ~ok THEN "tick"
    ELSE IF phase = "judge" THEN "tick"
    ELSE PhaseOrder[PhaseRank(phase) + 1]

\* The condition under which run_cycle calls an engine.
EngineDue(cfg, engine, tick, force, trigger) ==
    CASE engine = "fees"       -> cfg.fees_enabled
      [] engine = "autopilot"  -> cfg.autopilot_enabled /\ ShouldRunAutopilot(tick, force)
      [] engine = "rebalancer" -> cfg.rebalancer_enabled
                                  /\ ShouldRunRebalancer(tick, force, trigger)
      [] engine = "judge"      -> cfg.judge_enabled /\ ShouldRunJudge(tick, force)

\* The node state an engine is handed: the snapshot of phase 1, not the
\* node as it is now.
EngineReads_Fresh(snapshot, epoch) == epoch

EngineReads(snapshot, epoch) == snapshot[1]

\* The test at the head of the loop.
LoopBreaks_Never(shutdown) == FALSE

LoopBreaks(shutdown) == shutdown

PhaseEntry(phase, ran, read, ok) == [phase |-> phase, ran |-> ran, read |-> read, ok |-> ok]

-----------------------------------------------------------------------------
(* The inputs of a whole cycle: a node with three peers, one channel       *)
(* depleted and one full, funds on chain, fee samples and an earnings      *)
(* history; and the same scene with one part changed at a time.            *)

MaxCycles == 1

CyclePeers == {"pA", "pB", "pC"}

CycleChannel(id, peer, value_sats, outbound_permille, usable) ==
    Channel(id, peer, value_sats, value_sats * outbound_permille, usable, DefaultPair)

CycleChannels ==
    << CycleChannel("c1", "pA", 2000, 100, TRUE), CycleChannel("c2", "pB", 2000, 900, TRUE),
       CycleChannel("c3", "pC", 2000, 500, TRUE) >>

CycleEarnings ==
    << [channel_id |-> "c1", counterparty_node_id |-> "pA", day_bucket |-> StartDay - 1,
        fee_msat |-> 3000, amount_msat |-> 30000, direction |-> "out"],
       [channel_id |-> "c3", counterparty_node_id |-> "pC", day_bucket |-> StartDay - 1,
        fee_msat |-> 1000, amount_msat |-> 10000, direction |-> "out"] >>

Balances3(spendable, onchain, lightning) ==
    [ spendable_onchain_balance_sats |-> spendable,
      total_onchain_balance_sats     |-> onchain,
      total_lightning_balance_sats   |-> lightning ]

FeeSample(feerate, sampled_at) ==
    [feerate_sat_per_vb |-> feerate, sampled_at |-> sampled_at]

EmptyCycleStore ==
    [ center |-> [p \in CyclePeers |-> NoRow],
      cards  |-> [p \in CyclePeers |-> <<>>],
      decks  |-> [p \in CyclePeers |-> 0],
      ended  |-> [p \in CyclePeers |-> NotEnded] ]

\* One-card decks that end their round at every second tick keep the
\* price game of the three peers small.
CycleBaseConfig ==
    [DefaultConfig EXCEPT !.judge_enabled = TRUE, !.min_age_days = 10,
                          !.estimated_reopen_cost_sats = 0,
                          !.price_theory_max_step = 0,
                          !.price_theory_card_lifetime_ticks = 2]

BaseScene ==
    [ config   |-> CycleBaseConfig,
      channels |-> CycleChannels,
      balances |-> Balances3(500000, 500000, 6000),
      samples  |-> << FeeSample(10, 1), FeeSample(20, 2), FeeSample(5, 3) >>,
      saved    |-> <<>>,
      earnings |-> CycleEarnings,
      costs    |-> <<>>,
      history  |-> [k \in 1..Len(CycleChannels) |->
                       HistoryRow(CycleChannels[k], 0, StartDay, TRUE)],
      store    |-> EmptyCycleStore ]

SceneConfigs ==
    { CycleBaseConfig,
      [CycleBaseConfig EXCEPT !.cooperative_close = FALSE],
      [CycleBaseConfig EXCEPT !.fees_enabled = FALSE],
      [CycleBaseConfig EXCEPT !.autopilot_enabled = FALSE],
      [CycleBaseConfig EXCEPT !.rebalancer_enabled = FALSE],
      [CycleBaseConfig EXCEPT !.judge_enabled = FALSE],
      [CycleBaseConfig EXCEPT !.balance_modder_enabled = FALSE,
                              !.price_theory_enabled = FALSE],
      [CycleBaseConfig EXCEPT !.min_channel_sats = 20000, !.min_channels_to_backoff = 3] }

SceneChannels ==
    { CycleChannels,
      << CycleChannel("c1", "pA", 2000, 100, TRUE), CycleChannel("c2", "pB", 2000, 900, TRUE),
         CycleChannel("c3", "pC", 2000, 500, FALSE) >>,
      << CycleChannel("c1", "pA", 2000, 500, TRUE), CycleChannel("c2", "pB", 1000, 500, TRUE),
         CycleChannel("c3", "pB", 3000, 500, TRUE), CycleChannel("c4", "pC", 2000, 500, TRUE) >>,
      << >> }

\* Funds mostly on chain; between the minimum and the maximum on-chain
\* percentage, where the fee regime decides; below the reserve.
SceneBalances ==
    { Balances3(500000, 500000, 6000), Balances3(500000, 500000, 2000000),
      Balances3(20000, 20000, 6000) }

\* Samples whose latest feerate is the lowest, the highest, or inside the
\* band with a saved regime; and no samples.
SceneSamples ==
    { << <<FeeSample(10, 1), FeeSample(20, 2), FeeSample(5, 3)>>, <<>> >>,
      << <<FeeSample(10, 1), FeeSample(20, 2), FeeSample(30, 3)>>, <<>> >>,
      << <<FeeSample(10, 1), FeeSample(12, 4), FeeSample(12, 4), FeeSample(30, 2),
           FeeSample(11, 4), FeeSample(13, 3), FeeSample(14, 3)>>, <<"low">> >>,
      << <<>>, <<>> >> }

Scenes ==
    { [BaseScene EXCEPT !.config = c] : c \in SceneConfigs }
    \cup { [BaseScene EXCEPT !.channels = l,
                             !.history = [k \in 1..Len(l) |-> HistoryRow(l[k], 0, StartDay, TRUE)]]
           : l \in SceneChannels }
    \cup { [BaseScene EXCEPT !.balances = b, !.samples = s[1], !.saved = s[2]]
           : b \in SceneBalances, s \in SceneSamples }
    \cup { [BaseScene EXCEPT !.earnings = <<>>],
           [BaseScene EXCEPT !.history = <<>>],
           [BaseScene EXCEPT !.costs = << [channel_id |-> "c2", counterparty_node_id |-> "pB",
                                           day_bucket |-> StartDay - 1, fee_msat |-> 2500,
                                           amount_msat |-> 100000, direction |-> "out"] >>] }
    \cup { [BaseScene EXCEPT !.store = q]
           : q \in UpdateTick(EmptyCycleStore, <<"pA", "pB", "pC">>, CycleBaseConfig) }

\* What get_candidates may return.
CycleCandidates ==
    { << >>,
      << [node_id |-> "n1", address |-> "host:9735"] >>,
      << [node_id |-> "n1", address |-> ""], [node_id |-> "n2", address |-> "host:9735"],
         [node_id |-> "pA", address |-> "host:9735"] >> }

-----------------------------------------------------------------------------
(* The channel tracker on its own: channels::update cycle after cycle      *)
(* while the node's channels come and go and the clock advances.           *)

MaxTrackCalls == 2

MaxTrackDays == 1

TrackChannel(id) == Channel(id, "peer-" \o id, 1000000, 500000000, TRUE, DefaultPair)

\* What ListChannels may return: any of the three channels, in id order.
TrackSnapshots ==
    { SelectSeq(<<TrackChannel("t1"), TrackChannel("t2"), TrackChannel("t3")>>,
                LAMBDA c : c.channel_id \in ids)
      : ids \in SUBSET {"t1", "t2", "t3"} }

\* The table as an earlier run left it: empty; t1 open; t1 closed; t1 and
\* t2 open; t1 open and t2 closed.
TrackHistories ==
    { << >>,
      << HistoryRow(TrackChannel("t1"), 0, StartDay - 1, TRUE) >>,
      << HistoryRow(TrackChannel("t1"), 0, StartDay - 2, FALSE) >>,
      << HistoryRow(TrackChannel("t1"), 0, StartDay - 1, TRUE),
         HistoryRow(TrackChannel("t2"), 5, StartDay - 1, TRUE) >>,
      << HistoryRow(TrackChannel("t1"), 0, StartDay - 1, TRUE),
         HistoryRow(TrackChannel("t2"), 5, StartDay - 3, FALSE) >> }

-----------------------------------------------------------------------------
(* The earnings tracker on its own: payments are forwarded, ingest runs    *)
(* cycle after cycle, days pass.                                           *)

MaxIngestCycles == 3

MaxForwards == 3

Forwarded(id, prev, next, fee) ==
    [ id |-> id,
      prev_channel_id |-> prev, prev_node_id |-> IF prev = "" THEN "" ELSE "peer-" \o prev,
      next_channel_id |-> next, next_node_id |-> IF next = "" THEN "" ELSE "peer-" \o next,
      total_fee_earned_msat |-> fee,
      outbound_amount_forwarded_msat |-> IF fee = <<>> THEN <<>> ELSE << 100 * fee[1] >> ]

\* The payments the node forwards, in this order.
ForwardedStream ==
    << Forwarded(1, "t1", "t2", <<1000>>),
       Forwarded(2, "t2", "t1", <<2000>>),
       Forwarded(3, "", "t1", <<>>) >>

-----------------------------------------------------------------------------
(* The scheduler on its own: built by new or new_force_all, ticked, and    *)
(* asked its three questions at any tick.                                  *)

MaxTicks == 72

-----------------------------------------------------------------------------
(* The daemon: the control loop runs cycles, the interrupt arrives at any  *)
(* moment, the node changes at any moment.                                 *)

MaxDaemonCycles == 2

MaxEpoch == 1

AllEngines == [DefaultConfig EXCEPT !.judge_enabled = TRUE]

DaemonConfigs ==
    { AllEngines,
      [AllEngines EXCEPT !.fees_enabled = FALSE, !.rebalancer_enabled = FALSE],
      [AllEngines EXCEPT !.autopilot_enabled = FALSE, !.judge_enabled = FALSE] }

-----------------------------------------------------------------------------
(* The fee-regime detector on its own: the sampler runs each cycle against *)
(* a provider that answers or not, the detector is asked, a regime is      *)
(* saved, days pass.                                                       *)

MaxRegimeCycles == 2

MaxRegimeDays == 9

Feerates == {2, 30, 60}

\* Five samples of rates 10 to 50, the one of rate 10 * newest sampled last.
FiveSamples(newest) ==
    [k \in 1..5 |-> [feerate_sat_per_vb |-> 10 * k,
                     sampled_at |-> IF k = newest THEN 0 ELSE k - 6]]

\* Tables of samples: none; one; five with the newest lowest, in the middle
\* and highest; fifty of rates 1 to 50 with the rate 30 sampled last.
RegimeSamples ==
    { << >>,
      << [feerate_sat_per_vb |-> 10, sampled_at |-> 0] >>,
      FiveSamples(1), FiveSamples(4), FiveSamples(5),
      [k \in 1..50 |-> [feerate_sat_per_vb |-> k,
                        sampled_at |-> IF k = 30 THEN 0 ELSE 0 - 1]] }

RegimeConfigs ==
    { DefaultConfig,
      [DefaultConfig EXCEPT !.hi_to_lo_percentile = 58, !.lo_to_hi_percentile = 80],
      [DefaultConfig EXCEPT !.provider = "none"] }

-----------------------------------------------------------------------------
(* The autopilot's decider on its own: funds move between the chain and    *)
(* the channels, the fee history changes, and the decider is asked.        *)

\* Spendable on-chain funds at and around the reserve and the reserve plus
\* the smallest channel, with part of the on-chain funds unconfirmed or
\* none, beside lightning balances from nothing to twenty times as much.
DeciderBalances ==
    { [ spendable_onchain_balance_sats |-> spendable,
        total_onchain_balance_sats     |-> spendable + unconfirmed,
        total_lightning_balance_sats   |-> lightning ]
      : spendable \in {0, 30000, 30001, 129999, 130000, 500000},
        unconfirmed \in {0, 50000},
        lightning \in {0, 700000, 1500000, 4500000, 10000000} }

DeciderConfigs ==
    { DefaultConfig,
      [DefaultConfig EXCEPT !.min_onchain_percent = 0, !.max_onchain_percent = 100],
      [DefaultConfig EXCEPT !.onchain_reserve_sats = 0, !.min_channel_sats = 20000] }

-----------------------------------------------------------------------------
(* The candidate selection on its own: seed lists and blacklists of the    *)
(* operator, an earnings history that grows, peers that come and go.       *)

CandSeeds ==
    { << >>,
      << <<"n1", "host1:9735">> >>,
      << <<"n1", "host1:9735">>, <<"n1", "host2:9735">> >>,
      << <<"n2", "host3:9735">>, <<"n3">>, <<"pA", "host4:9735">> >>,
      << <<"acinq", "host5:9735">> >> }

CandBlacklists == { << >>, <<"n1">>, <<"acinq", "n2">> }

CandConfigs ==
    { [DefaultConfig EXCEPT !.seed_nodes = seeds, !.blacklist = blacklist]
      : seeds \in CandSeeds, blacklist \in CandBlacklists }
    \cup { [DefaultConfig EXCEPT !.ranking_api_url = "https://ranking.example"] }

CandEarning(node_id, fee_msat) ==
    [ channel_id           |-> "c-" \o node_id,
      counterparty_node_id |-> node_id,
      day_bucket           |-> StartDay,
      fee_msat             |-> fee_msat,
      amount_msat          |-> 10 * fee_msat,
      direction            |-> "out" ]

CandEarningTables ==
    { << >>,
      << CandEarning("n1", 5000) >>,
      << CandEarning("n1", 5000), CandEarning("n2", 3000), CandEarning("pA", 900),
         CandEarning("n2", 2000) >>,
      << CandEarning("n2", 200000000), CandEarning("acinq", 2000000) >> }

CandSnapshots ==
    { << >>,
      << Channel("k1", "pA", 1000000, 500000000, TRUE, DefaultPair) >>,
      << Channel("k1", "pA", 1000000, 500000000, TRUE, DefaultPair),
         Channel("k2", "acinq", 1000000, 500000000, TRUE, DefaultPair) >> }

-----------------------------------------------------------------------------
(* The fee regime across the cycles of the daemon: the tracker samples the *)
(* feerate, the autopilot's decider asks for the regime.                   *)

MaxHystCycles == 3

HystFeerates == {5, 35, 300}

\* Twenty samples of rates 10 to 200, the one of rate 100 sampled last.
TwentySamples ==
    [k \in 1..20 |-> [feerate_sat_per_vb |-> 10 * k,
                      sampled_at |-> IF k = 10 THEN 0 ELSE 0 - 1]]

HystSamples == { FiveSamples(3), TwentySamples }

HystConfigs ==
    { DefaultConfig,
      [DefaultConfig EXCEPT !.hi_to_lo_percentile = 20, !.lo_to_hi_percentile = 80] }

-----------------------------------------------------------------------------
(* The scheduler across runs of the daemon: the process is stopped and     *)
(* started again while the history store stays on disk.                    *)

MaxRestartTicks == 13

\* Scheduler::new: the fields of the scheduler run_daemon constructs.
SchedulerNew(cfg) == [tick_count |-> 0, force_all |-> FALSE]

-----------------------------------------------------------------------------
(* judge() as a function of its arguments.                                 *)

MaxAlgoPeers == 3

AlgoPeerIds == <<"pA", "pB", "pC", "pD">>

\* No capacity, and two sizes.
AlgoSats == {0, 1000, 2000}

\* A loss, nothing, and three neighbouring earnings.
AlgoEarned == {-2000, 0, 20, 21, 22}

AlgoPeerLists ==
    UNION { { [k \in 1..n |-> PeerInfo(AlgoPeerIds[k], sats[k], earned[k])] :
                sats \in [1..n -> AlgoSats], earned \in [1..n -> AlgoEarned] } :
            n \in 0..MaxAlgoPeers }

AlgoReopenCosts == {0, 1}

-----------------------------------------------------------------------------
(* Phases 1 to 3 of autopilot::run: the budget from should_open, the      *)
(* candidates, max_proposals from the snapshot, then plan_opens.           *)

\* Nodes with n usable channels and one that is not usable.
PlanSnapshot(n) ==
    [ i \in 1..n |-> Channel(DepletedIds[i], PeerOfChannel[DepletedIds[i]], 1000000,
                             500000000, TRUE, DefaultPair) ]
    \o << Channel("u1", "pU", 1000000, 500000000, FALSE, DefaultPair) >>

PlanSnapshots == { PlanSnapshot(n) : n \in {0, 3, 4, 5} }

PlanRunConfigs ==
    { [c EXCEPT !.max_proposals = m] : c \in PlanConfigs, m \in {1, 2, 5} }

\* On-chain funds that leave, above the reserve, less than the smallest
\* channel, about one or two channels, and many; nothing in channels.
PlanBalances(cfg) ==
    { Balances3(cfg.onchain_reserve_sats + b, cfg.onchain_reserve_sats + b, 0) :
        b \in {50000, 150000, 199999, 200000, 250000, 400000, 500000, 1000000, 20000000} }

\* No feerate sample (the regime is High) and one sample (Low).
PlanSamples == { << >>, << FeeSample(5, 0) >> }

-----------------------------------------------------------------------------
(* The rounds of one peer's card game: update_tick names peer pA once in   *)
(* every call, as the fee controller does for a peer with one usable       *)
(* channel; forwards credit the card in play between ticks.                *)

MaxRoundTicks == 13

MaxRoundEarnings == 2

RoundConfigs ==
    { [DefaultConfig EXCEPT !.price_theory_max_step = sl[1],
                            !.price_theory_card_lifetime_ticks = sl[2]]
      : sl \in { <<0, 1>>, <<0, 3>>, <<1, 1>>, <<1, 2>> } }

RoundLists == { <<"pA">> }

-----------------------------------------------------------------------------
(* The specifications: one per component, each over the whole state.       *)

InitOpener ==
    /\ config \in PlanConfigs
    /\ planArgs \in [candidates : CandidateLists,
                     budget_sats : PlanBudgets,
                     max_proposals : 0..(MaxCandidates + 1)]
    /\ plan = <<>>
    /\ planned = FALSE
    /\ ClientIdle
    /\ PriceIdle
    /\ NodeIdle
    /\ FeeIdle
    /\ EarnIdle
    /\ RebalIdle
    /\ JudgeIdle
    /\ AutoIdle
    /\ SchedIdle
    /\ TrackIdle
    /\ IngestIdle
    /\ DaemonIdle
    /\ RegimeIdle
    /\ CandIdle
    /\ HystIdle
    /\ AlgoIdle

CallPlanOpens ==
    /\ ~planned
    /\ plan' = PlanOpens(config, planArgs.candidates, planArgs.budget_sats,
                         planArgs.max_proposals)
    /\ planned' = TRUE
    /\ UNCHANGED planArgs

NextOpener ==
    CallPlanOpens /\ UNCHANGED <<config, clientVars, priceVars, nodeVars, feeVars,
                                 earnVars, rebalVars, judgeVars, autoVars,
                                 schedVars,
                trackVars,
                ingestVars,
                daemonVars,
                regimeVars,
                candVars,
                hystVars,
                algoVars>>

SpecOpener == InitOpener /\ [][NextOpener]_vars

InitClient ==
    /\ config = DefaultConfig
    /\ OpenerIdle
    /\ ClientIdle
    /\ PriceIdle
    /\ NodeIdle
    /\ FeeIdle
    /\ EarnIdle
    /\ RebalIdle
    /\ JudgeIdle
    /\ AutoIdle
    /\ SchedIdle
    /\ TrackIdle
    /\ IngestIdle
    /\ DaemonIdle
    /\ RegimeIdle
    /\ CandIdle
    /\ HystIdle
    /\ AlgoIdle

ClientRest ==
    UNCHANGED <<config, openerVars, priceVars, nodeVars, feeVars, earnVars, rebalVars,
                judgeVars, autoVars, schedVars,
                trackVars,
                ingestVars,
                daemonVars,
                regimeVars,
                candVars,
                hystVars,
                algoVars>>

NextClient ==
    \/ \E c \in Callers, kind \in AllRpcs : Invoke(c, kind) /\ ClientRest
    \/ \E c \in Callers : Acquire(c) /\ ClientRest
    \/ \E c \in Callers : RateLimitReturn(c) /\ ClientRest
    \/ \E c \in Callers : SendRequest(c) /\ ClientRest
    \/ \E c \in Callers, ok \in BOOLEAN : Response(c, ok) /\ ClientRest
    \/ \E c \in Callers : BackoffDone(c) /\ ClientRest
    \/ \E c \in Callers : Return(c) /\ ClientRest

SpecClient == InitClient /\ [][NextClient]_vars

InitPrice ==
    /\ config \in PriceConfigs
    /\ \E q \in StartStores(config) :
          /\ price_theory_center = q.center
          /\ price_theory_cards = q.cards
          /\ decks_created = q.decks
    /\ round_ended = NoEnds
    /\ pt_calls = 0
    /\ last_op = "none"
    /\ tick_peers = <<>>
    /\ OpenerIdle
    /\ ClientIdle
    /\ NodeIdle
    /\ FeeIdle
    /\ EarnIdle
    /\ RebalIdle
    /\ JudgeIdle
    /\ AutoIdle
    /\ SchedIdle
    /\ TrackIdle
    /\ IngestIdle
    /\ DaemonIdle
    /\ RegimeIdle
    /\ CandIdle
    /\ HystIdle
    /\ AlgoIdle

\* The store a call leaves.
StoreBecomes(q) ==
    /\ price_theory_center' = q.center
    /\ price_theory_cards' = q.cards
    /\ decks_created' = q.decks
    /\ round_ended' = q.ended

CallUpdateTick(connected_peers) ==
    /\ pt_calls < MaxCalls
    /\ \E q \in UpdateTick(PriceStore, connected_peers, config) : StoreBecomes(q)
    /\ pt_calls' = pt_calls + 1
    /\ last_op' = "update_tick"
    /\ tick_peers' = connected_peers

CallRecordEarnings(p, fee_msat) ==
    /\ pt_calls < MaxCalls
    /\ StoreBecomes(RecordEarnings(PriceStore, p, fee_msat))
    /\ pt_calls' = pt_calls + 1
    /\ last_op' = "record_earnings"
    /\ UNCHANGED tick_peers

CallEnsureInitialized(p) ==
    /\ pt_calls < MaxCalls
    /\ \E q \in EnsureInitialized(PriceStore, p, config) : StoreBecomes(q)
    /\ pt_calls' = pt_calls + 1
    /\ last_op' = "ensure_initialized"
    /\ UNCHANGED tick_peers

PriceRest ==
    UNCHANGED <<config, openerVars, clientVars, nodeVars, feeVars, earnVars, rebalVars,
                judgeVars, autoVars, schedVars,
                trackVars,
                ingestVars,
                daemonVars,
                regimeVars,
                candVars,
                hystVars,
                algoVars>>

NextPrice ==
    \/ \E l \in PeerLists : CallUpdateTick(l) /\ PriceRest
    \/ \E p \in Peers, f \in FeeValues : CallRecordEarnings(p, f) /\ PriceRest
    \/ \E p \in Peers : CallEnsureInitialized(p) /\ PriceRest

SpecPrice == InitPrice /\ [][NextPrice]_vars

InitFees ==
    /\ \E in \in FeeInputs : config = in[1] /\ channels = in[2]
    /\ rpcLog = <<>>
    /\ cycles = 0
    /\ FeeIdle
    /\ PriceIdle
    /\ OpenerIdle
    /\ ClientIdle
    /\ EarnIdle
    /\ RebalIdle
    /\ JudgeIdle
    /\ AutoIdle
    /\ SchedIdle
    /\ TrackIdle
    /\ IngestIdle
    /\ DaemonIdle
    /\ RegimeIdle
    /\ CandIdle
    /\ HystIdle
    /\ AlgoIdle

\* One cycle of the fee controller on the snapshot that NodeState::collect
\* took: the node's channels as they are by then.
FeesCycle(snapshot) ==
    /\ cycles < MaxFeeCycles
    /\ \E r \in FeesRun(config, PriceStore, snapshot,
                        [node |-> snapshot, rpc |-> <<>>, fee |-> <<>>, failed |-> FALSE]) :
          /\ channels' = r.run.node
          /\ rpcLog' = r.run.rpc
          /\ feeLog' = r.run.fee
          /\ StoreBecomes(r.store)
          /\ pt_calls' = IF r.ticked THEN pt_calls + 1 ELSE pt_calls
          /\ last_op' = IF r.ticked THEN "update_tick" ELSE last_op
          /\ tick_peers' = IF r.ticked THEN UsablePeerIds(snapshot) ELSE tick_peers
    /\ feePrev' = feeLog
    /\ cycles' = cycles + 1

FeesRest ==
    UNCHANGED <<config, openerVars, clientVars, earnVars, rebalVars, judgeVars, autoVars,
                schedVars,
                trackVars,
                ingestVars,
                daemonVars,
                regimeVars,
                candVars,
                hystVars,
                algoVars>>

NextFees == \E snapshot \in Snapshots(channels) : FeesCycle(snapshot) /\ FeesRest

SpecFees == InitFees /\ [][NextFees]_vars

InitRebal ==
    /\ config \in RebalConfigs
    /\ channels \in RebalChannelLists
    /\ earnings \in EarningTables
    /\ rebalance_costs \in CostTables
    /\ today = StartDay
    /\ rpcLog = <<>>
    /\ cycles = 0
    /\ RebalIdle
    /\ FeeIdle
    /\ PriceIdle
    /\ OpenerIdle
    /\ ClientIdle
    /\ JudgeIdle
    /\ AutoIdle
    /\ SchedIdle
    /\ TrackIdle
    /\ IngestIdle
    /\ DaemonIdle
    /\ RegimeIdle
    /\ CandIdle
    /\ HystIdle
    /\ AlgoIdle

\* One cycle of the rebalancer on the node's channels.
RebalancerCycle ==
    /\ cycles < MaxRebalCycles
    /\ \E r \in RebalancerRun(config, earnings, today, channels,
                              [rpc |-> <<>>, costs |-> rebalance_costs, log |-> <<>>,
                               total_fee_spent |-> 0]) :
          /\ rpcLog' = r.rpc
          /\ rebalance_costs' = r.costs
          /\ rebalLog' = r.log
    /\ cycles' = cycles + 1
    /\ UNCHANGED <<channels, earnings, today>>

RebalRest ==
    UNCHANGED <<config, openerVars, clientVars, priceVars, feeVars, judgeVars, autoVars,
                schedVars,
                trackVars,
                ingestVars,
                daemonVars,
                regimeVars,
                candVars,
                hystVars,
                algoVars>>

NextRebal == RebalancerCycle /\ RebalRest

SpecRebal == InitRebal /\ [][NextRebal]_vars

InitJudge ==
    /\ config \in JudgeConfigs
    /\ channels \in JudgeChannelLists
    /\ earnings \in JudgeEarningTables(channels)
    /\ rebalance_costs = <<>>
    /\ today = StartDay
    /\ channel_history \in HistoryTables(channels)
    /\ judge_closures = <<>>
    /\ judgeLog = <<>>
    /\ rpcLog = <<>>
    /\ cycles = 0
    /\ RebalIdle
    /\ FeeIdle
    /\ PriceIdle
    /\ OpenerIdle
    /\ ClientIdle
    /\ AutoIdle
    /\ SchedIdle
    /\ TrackIdle
    /\ IngestIdle
    /\ DaemonIdle
    /\ RegimeIdle
    /\ CandIdle
    /\ HystIdle
    /\ AlgoIdle

\* One cycle of the judge on the node's channels.
JudgeCycle ==
    /\ cycles < MaxJudgeCycles
    /\ \E r \in JudgeRun(config, earnings, rebalance_costs, channel_history, today, channels,
                         [node |-> channels, rpc |-> <<>>, closures |-> judge_closures,
                          log |-> <<>>]) :
          /\ channels' = r.node
          /\ rpcLog' = r.rpc
          /\ judge_closures' = r.closures
          /\ judgeLog' = r.log
    /\ cycles' = cycles + 1
    /\ UNCHANGED <<earnings, rebalance_costs, today, channel_history>>

JudgeRest ==
    UNCHANGED <<config, openerVars, clientVars, priceVars, feeVars, rebalVars, autoVars,
                schedVars,
                trackVars,
                ingestVars,
                daemonVars,
                regimeVars,
                candVars,
                hystVars,
                algoVars>>

NextJudge == JudgeCycle /\ JudgeRest

SpecJudge == InitJudge /\ [][NextJudge]_vars

InitCycle ==
    /\ \E s \in Scenes, dry \in BOOLEAN :
          /\ config = [s.config EXCEPT !.dry_run = dry]
          /\ channels = s.channels
          /\ node_balances = s.balances
          /\ onchain_fee_samples = s.samples
          /\ fee_regime = s.saved
          /\ earnings = s.earnings
          /\ rebalance_costs = s.costs
          /\ channel_history = s.history
          /\ price_theory_center = s.store.center
          /\ price_theory_cards = s.store.cards
          /\ decks_created = s.store.decks
          /\ round_ended = s.store.ended
    /\ pt_calls = 0
    /\ last_op = "none"
    /\ tick_peers = <<>>
    /\ today = StartDay
    /\ \E sched \in { <<0, FALSE>>, <<1, FALSE>>, <<0, TRUE>> } :
          /\ tick_count = sched[1]
          /\ force_all = sched[2]
    /\ rpcLog = <<>>
    /\ cycles = 0
    /\ judge_closures = <<>>
    /\ judgeLog = <<>>
    /\ autopilot_opens = <<>>
    /\ peer_addresses = <<>>
    /\ autoLog = <<>>
    /\ FeeIdle
    /\ RebalIdle
    /\ OpenerIdle
    /\ ClientIdle
    /\ TrackIdle
    /\ IngestIdle
    /\ DaemonIdle
    /\ RegimeIdle
    /\ CandIdle
    /\ HystIdle
    /\ AlgoIdle

\* Phases 3 to 6 of run_cycle on the snapshot that phase 1 took, with the
\* store as phase 2 left it, followed by the tick of the daemon loop (a
\* run-once scheduler, which forces every gate, runs a single cycle).  An
\* engine that is switched off or not due leaves the run as it is.
RunEngines(candidates, trigger) ==
    /\ cycles < MaxCycles
    /\ force_all => cycles = 0
    /\ \E f \in ( IF config.fees_enabled
                  THEN FeesRun(config, PriceStore, channels,
                               [node |-> channels, rpc |-> <<>>, fee |-> <<>>,
                                failed |-> FALSE])
                  ELSE { [run |-> [node |-> channels, rpc |-> <<>>, fee |-> <<>>,
                                   failed |-> FALSE],
                          store |-> PriceStore, ticked |-> FALSE] } ) :
       \E a \in ( LET st == [node |-> f.run.node, rpc |-> f.run.rpc,
                             opens |-> autopilot_opens, addresses |-> peer_addresses,
                             log |-> <<>>]
                  IN  IF config.autopilot_enabled /\ ShouldRunAutopilot(tick_count, force_all)
                      THEN AutopilotRun(config, channels, node_balances, onchain_fee_samples,
                                        fee_regime, candidates, today, st)
                      ELSE {st} ) :
       \E r \in ( LET st == [rpc |-> a.rpc, costs |-> rebalance_costs, log |-> <<>>,
                             total_fee_spent |-> 0]
                  IN  IF /\ config.rebalancer_enabled
                         /\ ShouldRunRebalancer(tick_count, force_all, trigger)
                      THEN RebalancerRun(config, earnings, today, channels, st)
                      ELSE {st} ) :
       \E j \in ( LET st == [node |-> a.node, rpc |-> r.rpc, closures |-> judge_closures,
                             log |-> <<>>]
                  IN  IF config.judge_enabled /\ ShouldRunJudge(tick_count, force_all)
                      THEN JudgeRun(config, earnings, r.costs, channel_history, today,
                                    channels, st)
                      ELSE {st} ) :
          /\ channels' = j.node
          /\ rpcLog' = j.rpc
          /\ feeLog' = f.run.fee
          /\ StoreBecomes(f.store)
          /\ pt_calls' = IF f.ticked THEN pt_calls + 1 ELSE pt_calls
          /\ last_op' = IF f.ticked THEN "update_tick" ELSE last_op
          /\ tick_peers' = IF f.ticked THEN UsablePeerIds(channels) ELSE tick_peers
          /\ autopilot_opens' = a.opens
          /\ peer_addresses' = a.addresses
          /\ autoLog' = a.log
          /\ rebalance_costs' = r.costs
          /\ rebalLog' = r.log
          /\ judge_closures' = j.closures
          /\ judgeLog' = j.log
    /\ feePrev' = feeLog
    /\ cycles' = cycles + 1
    /\ tick_count' = IF force_all THEN tick_count ELSE tick_count + 1
    /\ UNCHANGED <<force_all, node_balances, onchain_fee_samples, fee_regime, earnings,
                   today, channel_history>>

CycleRest == UNCHANGED <<config, openerVars, clientVars, trackVars,
                ingestVars,
                daemonVars,
                regimeVars,
                candVars,
                hystVars,
                algoVars>>

NextCycle ==
    \E candidates \in CycleCandidates, trigger \in BOOLEAN :
        RunEngines(candidates, trigger) /\ CycleRest

SpecCycle == InitCycle /\ [][NextCycle]_vars

InitTrack ==
    /\ config = DefaultConfig
    /\ channels \in TrackSnapshots
    /\ channel_history \in TrackHistories
    /\ judge_closures = <<>>
    /\ judgeLog = <<>>
    /\ today = StartDay
    /\ earnings = <<>>
    /\ rebalance_costs = <<>>
    /\ rpcLog = <<>>
    /\ cycles = 0
    /\ trackLog = <<>>
    /\ FeeIdle
    /\ RebalIdle
    /\ PriceIdle
    /\ OpenerIdle
    /\ ClientIdle
    /\ AutoIdle
    /\ SchedIdle
    /\ IngestIdle
    /\ DaemonIdle
    /\ RegimeIdle
    /\ CandIdle
    /\ HystIdle
    /\ AlgoIdle

\* One entry of trackLog.
TrackCall(snapshot, now, before, after, ok) ==
    [snapshot |-> snapshot, now |-> now, before |-> before, after |-> after, ok |-> ok]

\* tracker::update calls channels::update on the snapshot of the cycle.
CallChannelsUpdate ==
    /\ cycles < MaxTrackCalls
    /\ \E r \in ChannelsUpdate(channel_history, channels, today) :
          /\ channel_history' = r.history
          /\ trackLog' = (IF trackLog = <<>> THEN <<>> ELSE << trackLog[Len(trackLog)] >>)
                         \o << TrackCall(channels, today, channel_history, r.history, r.ok) >>
    /\ cycles' = cycles + 1
    /\ UNCHANGED <<channels, today>>

\* Between two cycles channels are opened and closed.
ChannelsChange(snapshot) ==
    /\ snapshot # channels
    /\ channels' = snapshot
    /\ UNCHANGED <<channel_history, trackLog, cycles, today>>

\* Between two cycles time passes.
DayPasses ==
    /\ today < StartDay + MaxTrackDays
    /\ today' = today + 1
    /\ UNCHANGED <<channel_history, trackLog, cycles, channels>>

TrackRest ==
    UNCHANGED <<config, openerVars, clientVars, priceVars, feeVars, rebalVars, autoVars,
                schedVars, rpcLog, earnings, rebalance_costs, judge_closures, judgeLog, ingestVars,
                daemonVars,
                regimeVars,
                candVars,
                hystVars,
                algoVars>>

NextTrack ==
    \/ CallChannelsUpdate /\ TrackRest
    \/ \E snapshot \in TrackSnapshots : ChannelsChange(snapshot) /\ TrackRest
    \/ DayPasses /\ TrackRest

SpecTrack == InitTrack /\ [][NextTrack]_vars

InitIngest ==
    /\ config = DefaultConfig
    /\ \E n \in 0..1 : forwards = SubSeq(ForwardedStream, 1, n)
    /\ sync_state = <<>>
    /\ ingested = [id \in 1..MaxForwards |-> 0]
    /\ earnings = <<>>
    /\ rebalance_costs = <<>>
    /\ today = StartDay
    /\ NodeIdle
    /\ FeeIdle
    /\ RebalIdle
    /\ PriceIdle
    /\ OpenerIdle
    /\ ClientIdle
    /\ JudgeIdle
    /\ AutoIdle
    /\ SchedIdle
    /\ TrackIdle
    /\ DaemonIdle
    /\ RegimeIdle
    /\ CandIdle
    /\ HystIdle
    /\ AlgoIdle

\* tracker::update calls earnings::ingest.
IngestEarnings ==
    /\ cycles < MaxIngestCycles
    /\ \E r \in Ingest(earnings, sync_state, ingested, forwards, today) :
          /\ earnings' = r.earnings
          /\ sync_state' = r.sync
          /\ ingested' = r.counts
    /\ cycles' = cycles + 1
    /\ UNCHANGED <<forwards, today>>

\* The node forwards one more payment.
NodeForwards ==
    /\ Len(forwards) < MaxForwards
    /\ forwards' = Append(forwards, ForwardedStream[Len(forwards) + 1])
    /\ UNCHANGED <<earnings, sync_state, ingested, cycles, today>>

\* Midnight passes.
NextDayBucket ==
    /\ today < StartDay + 1
    /\ today' = today + 1
    /\ UNCHANGED <<earnings, sync_state, ingested, cycles, forwards>>

IngestRest ==
    UNCHANGED <<config, openerVars, clientVars, priceVars, feeVars, rebalVars, judgeVars,
                autoVars, schedVars, trackVars, channels, rpcLog, rebalance_costs, daemonVars,
                regimeVars,
                candVars,
                hystVars,
                algoVars>>

NextIngest ==
    \/ IngestEarnings /\ IngestRest
    \/ NodeForwards /\ IngestRest
    \/ NextDayBucket /\ IngestRest

SpecIngest == InitIngest /\ [][NextIngest]_vars

InitSched ==
    /\ \E probability \in {0, 50, 100} :
          config = [DefaultConfig EXCEPT !.trigger_probability = probability]
    /\ tick_count = 0
    /\ force_all \in BOOLEAN
    /\ gates = <<>>
    /\ daemon_pc = "idle"
    /\ shutdown_tx = FALSE
    /\ node_epoch = 0
    /\ node_state = <<>>
    /\ phaseLog = <<>>
    /\ daemonLog = <<>>
    /\ NodeIdle
    /\ FeeIdle
    /\ EarnIdle
    /\ RebalIdle
    /\ PriceIdle
    /\ OpenerIdle
    /\ ClientIdle
    /\ JudgeIdle
    /\ AutoIdle
    /\ TrackIdle
    /\ IngestIdle
    /\ RegimeIdle
    /\ CandIdle
    /\ HystIdle
    /\ AlgoIdle

\* Scheduler::tick
Tick ==
    /\ tick_count < MaxTicks
    /\ tick_count' = tick_count + 1
    /\ UNCHANGED <<force_all, gates>>

\* should_run_autopilot, should_run_rebalancer and should_run_judge, asked
\* at the current tick.
AskGates ==
    /\ \E trigger \in TriggerOutcomes(config.trigger_probability) :
          gates' = [ tick       |-> tick_count,
                     force      |-> force_all,
                     trigger    |-> trigger,
                     autopilot  |-> ShouldRunAutopilot(tick_count, force_all),
                     rebalancer |-> ShouldRunRebalancer(tick_count, force_all, trigger),
                     judge      |-> ShouldRunJudge(tick_count, force_all) ]
    /\ UNCHANGED <<tick_count, force_all>>

SchedRest ==
    UNCHANGED <<config, openerVars, clientVars, priceVars, nodeVars, feeVars, earnVars,
                rebalVars, judgeVars, autoVars, trackVars, ingestVars,
                daemon_pc, shutdown_tx, node_epoch, node_state, phaseLog, daemonLog, regimeVars,
                candVars,
                hystVars,
                algoVars>>

NextSched ==
    \/ Tick /\ SchedRest
    \/ AskGates /\ SchedRest

SpecSched == InitSched /\ [][NextSched]_vars

InitDaemon ==
    /\ config \in DaemonConfigs
    /\ tick_count = 0
    /\ force_all = FALSE
    /\ gates = <<>>
    /\ daemon_pc = "start"
    /\ shutdown_tx = FALSE
    /\ node_epoch = 0
    /\ node_state = <<>>
    /\ phaseLog = <<>>
    /\ daemonLog = [started |-> 0, ended |-> 0, signal_at |-> "", previous |-> <<>>]
    /\ NodeIdle
    /\ FeeIdle
    /\ EarnIdle
    /\ RebalIdle
    /\ PriceIdle
    /\ OpenerIdle
    /\ ClientIdle
    /\ JudgeIdle
    /\ AutoIdle
    /\ TrackIdle
    /\ IngestIdle
    /\ RegimeIdle
    /\ CandIdle
    /\ HystIdle
    /\ AlgoIdle

\* The connectivity check before the loop.
Startup ==
    /\ daemon_pc = "start"
    /\ daemon_pc' \in {"head", "aborted"}
    /\ UNCHANGED <<tick_count, cycles, shutdown_tx, node_epoch, node_state, phaseLog,
                   daemonLog>>

\* The spawned task: ctrl_c() returns and the task sends true.
Interrupt ==
    /\ daemon_pc \notin {"start", "aborted", "exited"}
    /\ ~shutdown_tx
    /\ shutdown_tx' = TRUE
    /\ daemonLog' = [daemonLog EXCEPT !.signal_at = daemon_pc]
    /\ UNCHANGED <<tick_count, cycles, daemon_pc, node_epoch, node_state, phaseLog>>

\* Channels, balances and payments of the node change.
NodeChanges ==
    /\ daemon_pc \notin {"start", "aborted", "exited"}
    /\ node_epoch < MaxEpoch
    /\ node_epoch' = node_epoch + 1
    /\ UNCHANGED <<tick_count, cycles, daemon_pc, shutdown_tx, node_state, phaseLog,
                   daemonLog>>

\* if *shutdown_rx.borrow() { break }, else run_cycle begins.
LoopHead ==
    /\ daemon_pc = "head"
    /\ IF LoopBreaks(shutdown_tx)
       THEN /\ daemon_pc' = "exited"
            /\ UNCHANGED <<phaseLog, daemonLog, node_state>>
       ELSE /\ cycles < MaxDaemonCycles
            /\ daemon_pc' = "collect"
            /\ phaseLog' = <<>>
            /\ node_state' = <<>>
            /\ daemonLog' = [daemonLog EXCEPT !.started = @ + 1, !.previous = phaseLog]
    /\ UNCHANGED <<tick_count, cycles, shutdown_tx, node_epoch>>

\* Phase 1: NodeState::collect(...)?
Collect ==
    /\ daemon_pc = "collect"
    /\ \E ok \in BOOLEAN :
          /\ node_state' = IF ok THEN << node_epoch >> ELSE <<>>
          /\ phaseLog' = Append(phaseLog, PhaseEntry("collect", TRUE, node_epoch, ok))
          /\ daemon_pc' = AfterPhase("collect", ok)
          /\ daemonLog' = IF ok THEN daemonLog ELSE [daemonLog EXCEPT !.ended = @ + 1]
    /\ UNCHANGED <<tick_count, cycles, shutdown_tx, node_epoch>>

\* Phase 2: tracker::update(db, client, &node_state)?
Trackers ==
    /\ daemon_pc = "trackers"
    /\ \E ok \in BOOLEAN :
          /\ phaseLog' = Append(phaseLog,
                 PhaseEntry("trackers", TRUE, EngineReads(node_state, node_epoch), ok))
          /\ daemon_pc' = AfterPhase("trackers", ok)
          /\ daemonLog' = IF ok THEN daemonLog ELSE [daemonLog EXCEPT !.ended = @ + 1]
    /\ UNCHANGED <<tick_count, cycles, shutdown_tx, node_epoch, node_state>>

\* Phases 3 to 6: the engine runs if it is enabled and due; its error is
\* logged.
Engine(engine) ==
    /\ daemon_pc = engine
    /\ \E trigger \in TriggerOutcomes(config.trigger_probability), ok \in BOOLEAN :
          LET due == EngineDue(config, engine, tick_count, force_all, trigger)
          IN  /\ ~due => ok
              /\ phaseLog' = Append(phaseLog,
                     PhaseEntry(engine, due, EngineReads(node_state, node_epoch), ok))
              /\ daemon_pc' = AfterPhase(engine, ok)
              /\ daemonLog' = IF AfterPhase(engine, ok) = "tick"
                              THEN [daemonLog EXCEPT !.ended = @ + 1] ELSE daemonLog
    /\ UNCHANGED <<tick_count, cycles, shutdown_tx, node_epoch, node_state>>

\* sched.tick() after run_cycle returned, with Ok or with Err.
DaemonTick ==
    /\ daemon_pc = "tick"
    /\ tick_count' = tick_count + 1
    /\ cycles' = cycles + 1
    /\ daemon_pc' = "select"
    /\ UNCHANGED <<shutdown_tx, node_epoch, node_state, phaseLog, daemonLog>>

\* select!: the sleep elapses.
SleepElapses ==
    /\ daemon_pc = "select"
    /\ daemon_pc' = "head"
    /\ UNCHANGED <<tick_count, cycles, shutdown_tx, node_epoch, node_state, phaseLog,
                   daemonLog>>

\* select!: shutdown_rx.changed() completes, the value sent was never seen.
ShutdownChanged ==
    /\ daemon_pc = "select"
    /\ shutdown_tx
    /\ daemon_pc' = "exited"
    /\ UNCHANGED <<tick_count, cycles, shutdown_tx, node_epoch, node_state, phaseLog,
                   daemonLog>>

DaemonRest ==
    UNCHANGED <<config, openerVars, clientVars, priceVars, feeVars, earnVars, rebalVars,
                judgeVars, autoVars, trackVars, ingestVars, channels, rpcLog, force_all,
                gates, regimeVars,
                candVars,
                hystVars,
                algoVars>>

\* The steps of the daemon's own task.
LoopStep ==
    (Startup \/ LoopHead \/ Collect \/ Trackers \/ (\E engine \in Engines : Engine(engine))
        \/ DaemonTick \/ SleepElapses \/ ShutdownChanged) /\ DaemonRest

NextDaemon ==
    \/ Startup /\ DaemonRest
    \/ LoopHead /\ DaemonRest
    \/ Collect /\ DaemonRest
    \/ Trackers /\ DaemonRest
    \/ \E engine \in Engines : Engine(engine) /\ DaemonRest
    \/ DaemonTick /\ DaemonRest
    \/ SleepElapses /\ DaemonRest
    \/ ShutdownChanged /\ DaemonRest
    \/ Interrupt /\ DaemonRest
    \/ NodeChanges /\ DaemonRest

SpecDaemon == InitDaemon /\ [][NextDaemon]_vars

\* The daemon's task is scheduled and each of its awaits returns.
SpecDaemonLive == SpecDaemon /\ WF_vars(LoopStep)

InitRegime ==
    /\ config \in RegimeConfigs
    /\ onchain_fee_samples \in RegimeSamples
    /\ fee_regime = <<>>
    /\ regimeLog = [outage |-> FALSE, asked |-> <<>>]
    /\ today = 0
    /\ earnings = <<>>
    /\ rebalance_costs = <<>>
    /\ node_balances = <<>>
    /\ autopilot_opens = <<>>
    /\ peer_addresses = <<>>
    /\ autoLog = <<>>
    /\ NodeIdle
    /\ FeeIdle
    /\ RebalIdle
    /\ PriceIdle
    /\ OpenerIdle
    /\ ClientIdle
    /\ JudgeIdle
    /\ SchedIdle
    /\ TrackIdle
    /\ IngestIdle
    /\ DaemonIdle
    /\ CandIdle
    /\ HystIdle
    /\ AlgoIdle

\* tracker::update calls onchain_fees::update; the provider answers with a
\* feerate or the request fails.
SampleFees ==
    /\ cycles < MaxRegimeCycles
    /\ \E fetched \in {<<>>} \cup { <<f>> : f \in Feerates } :
       \E r \in OnchainFeesUpdate(onchain_fee_samples, config.provider, fetched, today) :
          /\ onchain_fee_samples' = r.samples
          /\ regimeLog' = [outage |-> ~r.sampled, asked |-> <<>>]
    /\ cycles' = cycles + 1
    /\ UNCHANGED <<fee_regime, today>>

\* The autopilot's decider asks current_regime.
AskRegime ==
    /\ \E regime \in CurrentRegime(onchain_fee_samples, fee_regime,
                                   config.hi_to_lo_percentile, config.lo_to_hi_percentile) :
          regimeLog' = [regimeLog EXCEPT !.asked = << regime >>]
    /\ UNCHANGED <<onchain_fee_samples, fee_regime, today, cycles>>

\* A caller saves a regime.
CallSaveRegime(regime) ==
    /\ fee_regime # SaveRegime(regime)
    /\ fee_regime' = SaveRegime(regime)
    /\ regimeLog' = [regimeLog EXCEPT !.asked = <<>>]
    /\ UNCHANGED <<onchain_fee_samples, today, cycles>>

\* Days pass between two cycles.
RegimeDayPasses ==
    /\ today < MaxRegimeDays
    /\ today' = today + 3
    /\ regimeLog' = [regimeLog EXCEPT !.asked = <<>>]
    /\ UNCHANGED <<onchain_fee_samples, fee_regime, cycles>>

RegimeRest ==
    UNCHANGED <<config, openerVars, clientVars, priceVars, feeVars, rebalVars, judgeVars,
                schedVars, trackVars, ingestVars, daemonVars, channels, rpcLog, earnings,
                rebalance_costs, node_balances, autopilot_opens, peer_addresses, autoLog, candVars,
                hystVars,
                algoVars>>

NextRegime ==
    \/ SampleFees /\ RegimeRest
    \/ AskRegime /\ RegimeRest
    \/ \E regime \in {"Low", "High"} : CallSaveRegime(regime) /\ RegimeRest
    \/ RegimeDayPasses /\ RegimeRest

SpecRegime == InitRegime /\ [][NextRegime]_vars

InitDecider ==
    /\ config \in DeciderConfigs
    /\ node_balances = Balances3(0, 0, 0)
    /\ onchain_fee_samples = <<>>
    /\ fee_regime = <<>>
    /\ autopilot_opens = <<>>
    /\ peer_addresses = <<>>
    /\ autoLog = <<>>
    /\ NodeIdle
    /\ FeeIdle
    /\ EarnIdle
    /\ RebalIdle
    /\ PriceIdle
    /\ OpenerIdle
    /\ ClientIdle
    /\ JudgeIdle
    /\ SchedIdle
    /\ TrackIdle
    /\ IngestIdle
    /\ DaemonIdle
    /\ RegimeIdle
    /\ CandIdle
    /\ HystIdle
    /\ AlgoIdle

\* autopilot::run asks should_open.
CallShouldOpen ==
    /\ \E budget \in ShouldOpen(config, node_balances, onchain_fee_samples, fee_regime) :
          autoLog' = << AutopilotDecision(budget, <<>>) >>
    /\ UNCHANGED <<node_balances, onchain_fee_samples, fee_regime>>

\* Funds arrive, are spent, or move into and out of channels.
FundsMove(bal) ==
    /\ bal # node_balances
    /\ node_balances' = bal
    /\ autoLog' = <<>>
    /\ UNCHANGED <<onchain_fee_samples, fee_regime>>

\* The fee history and the saved regime change.
FeeHistoryChanges(scene) ==
    /\ scene[1] # onchain_fee_samples
    /\ onchain_fee_samples' = scene[1]
    /\ fee_regime' = scene[2]
    /\ autoLog' = <<>>
    /\ UNCHANGED node_balances

DeciderRest ==
    UNCHANGED <<config, openerVars, clientVars, priceVars, nodeVars, feeVars, earnVars,
                rebalVars, judgeVars, schedVars, trackVars, ingestVars, daemonVars,
                regimeVars, autopilot_opens, peer_addresses, candVars,
                hystVars,
                algoVars>>

NextDecider ==
    \/ CallShouldOpen /\ DeciderRest
    \/ \E bal \in DeciderBalances : FundsMove(bal) /\ DeciderRest
    \/ \E scene \in SceneSamples : FeeHistoryChanges(scene) /\ DeciderRest

SpecDecider == InitDecider /\ [][NextDecider]_vars

InitCand ==
    /\ config \in CandConfigs
    /\ channels = << >>
    /\ rpcLog = <<>>
    /\ cycles = 0
    /\ earnings = << >>
    /\ rebalance_costs = <<>>
    /\ today = 0
    /\ candidate_list = << >>
    /\ FeeIdle
    /\ RebalIdle
    /\ PriceIdle
    /\ OpenerIdle
    /\ ClientIdle
    /\ JudgeIdle
    /\ AutoIdle
    /\ SchedIdle
    /\ TrackIdle
    /\ IngestIdle
    /\ DaemonIdle
    /\ RegimeIdle
    /\ HystIdle
    /\ AlgoIdle

\* autopilot::run: the peers of the snapshot's channels.
ExistingPeers(snapshot) == { snapshot[k].counterparty_node_id : k \in 1..Len(snapshot) }

\* autopilot::run calls get_candidates.
CallGetCandidates ==
    /\ \E list \in GetCandidates(config, earnings, ExistingPeers(channels)) :
          candidate_list' = << list >>
    /\ UNCHANGED <<channels, earnings>>

\* The earnings tracker has ingested more forwards.
EarningsChange(table) ==
    /\ table # earnings
    /\ earnings' = table
    /\ candidate_list' = << >>
    /\ UNCHANGED channels

\* Channels are opened and closed.
PeersChange(snapshot) ==
    /\ snapshot # channels
    /\ channels' = snapshot
    /\ candidate_list' = << >>
    /\ UNCHANGED earnings

CandRest ==
    UNCHANGED <<config, openerVars, clientVars, priceVars, feeVars, rebalVars, judgeVars,
                autoVars, schedVars, trackVars, ingestVars, daemonVars, regimeVars,
                rpcLog, cycles, rebalance_costs, today, hystVars,
                algoVars>>

NextCand ==
    \/ CallGetCandidates /\ CandRest
    \/ \E table \in CandEarningTables : EarningsChange(table) /\ CandRest
    \/ \E snapshot \in CandSnapshots : PeersChange(snapshot) /\ CandRest

SpecCand == InitCand /\ [][NextCand]_vars

InitHyst ==
    /\ config \in HystConfigs
    /\ onchain_fee_samples \in HystSamples
    /\ fee_regime = <<>>
    /\ today = 0
    /\ earnings = <<>>
    /\ rebalance_costs = <<>>
    /\ node_balances = <<>>
    /\ autopilot_opens = <<>>
    /\ peer_addresses = <<>>
    /\ autoLog = <<>>
    /\ HystIdle
    /\ AlgoIdle
    /\ NodeIdle
    /\ FeeIdle
    /\ RebalIdle
    /\ PriceIdle
    /\ OpenerIdle
    /\ ClientIdle
    /\ JudgeIdle
    /\ SchedIdle
    /\ TrackIdle
    /\ IngestIdle
    /\ DaemonIdle
    /\ RegimeIdle
    /\ CandIdle

\* A later cycle: tracker::update calls onchain_fees::update; the provider
\* answers with a feerate or the request fails.
TrackerSamples ==
    /\ cycles < MaxHystCycles
    /\ \E fetched \in {<<>>} \cup { <<f>> : f \in HystFeerates } :
       \E r \in OnchainFeesUpdate(onchain_fee_samples, config.provider, fetched, today + 1) :
          onchain_fee_samples' = r.samples
    /\ today' = today + 1
    /\ cycles' = cycles + 1
    /\ UNCHANGED <<fee_regime, regime_trace>>

\* The autopilot is due: should_open asks current_regime, and nothing in
\* autopilot::run or should_open writes the run_state row.
DeciderAsks ==
    /\ \E regime \in CurrentRegime(onchain_fee_samples, fee_regime,
                                   config.hi_to_lo_percentile, config.lo_to_hi_percentile) :
          LET in_band == InHysteresisBand(onchain_fee_samples, config.hi_to_lo_percentile,
                                          config.lo_to_hi_percentile)
          IN  regime_trace' = [ used    |-> << regime >>,
                                in_band |-> in_band,
                                outside |-> IF in_band THEN regime_trace.outside
                                            ELSE << regime >> ]
    /\ UNCHANGED <<onchain_fee_samples, fee_regime, today, cycles>>

HystRest ==
    UNCHANGED <<config, openerVars, clientVars, priceVars, feeVars, rebalVars, judgeVars,
                schedVars, trackVars, ingestVars, daemonVars, regimeVars, candVars,
                channels, rpcLog, earnings, rebalance_costs, node_balances,
                autopilot_opens, peer_addresses, autoLog, algoVars>>

NextHyst ==
    \/ TrackerSamples /\ HystRest
    \/ DeciderAsks /\ HystRest

SpecHyst == InitHyst /\ [][NextHyst]_vars

InitRestart ==
    /\ config = DefaultConfig
    /\ tick_count = SchedulerNew(config).tick_count
    /\ force_all = SchedulerNew(config).force_all
    /\ gates = <<>>
    /\ daemon_pc = "head"
    /\ shutdown_tx = FALSE
    /\ node_epoch = 0
    /\ node_state = <<>>
    /\ phaseLog = <<>>
    /\ daemonLog = <<>>
    /\ NodeIdle
    /\ FeeIdle
    /\ EarnIdle
    /\ RebalIdle
    /\ PriceIdle
    /\ OpenerIdle
    /\ ClientIdle
    /\ JudgeIdle
    /\ AutoIdle
    /\ TrackIdle
    /\ IngestIdle
    /\ RegimeIdle
    /\ CandIdle
    /\ HystIdle
    /\ AlgoIdle

\* One pass of the loop of run_daemon: run_cycle, then sched.tick().
CycleThenTick ==
    /\ daemon_pc = "head"
    /\ cycles < MaxRestartTicks
    /\ tick_count' = tick_count + 1
    /\ cycles' = cycles + 1
    /\ UNCHANGED <<daemon_pc, force_all, gates>>

\* The gates are asked inside a cycle.
GatesAsked ==
    /\ daemon_pc = "head"
    /\ gates' = [ tick       |-> tick_count,
                  autopilot  |-> ShouldRunAutopilot(tick_count, force_all),
                  judge      |-> ShouldRunJudge(tick_count, force_all) ]
    /\ UNCHANGED <<daemon_pc, tick_count, force_all, cycles>>

\* The loop breaks and run_daemon returns; tick_count keeps the value the
\* scheduler had when it was dropped.
DaemonExits ==
    /\ daemon_pc = "head"
    /\ daemon_pc' = "exited"
    /\ UNCHANGED <<tick_count, force_all, gates, cycles>>

\* The daemon is started again: run_daemon constructs its scheduler.
DaemonRestarts ==
    /\ daemon_pc = "exited"
    /\ daemon_pc' = "head"
    /\ tick_count' = SchedulerNew(config).tick_count
    /\ force_all' = SchedulerNew(config).force_all
    /\ UNCHANGED <<gates, cycles>>

RestartRest ==
    UNCHANGED <<config, openerVars, clientVars, priceVars, feeVars, earnVars, rebalVars,
                judgeVars, autoVars, trackVars, ingestVars, channels, rpcLog,
                regimeVars, candVars, hystVars, shutdown_tx, node_epoch, node_state,
                phaseLog, daemonLog, algoVars>>

NextRestart ==
    \/ CycleThenTick /\ RestartRest
    \/ GatesAsked /\ RestartRest
    \/ DaemonExits /\ RestartRest
    \/ DaemonRestarts /\ RestartRest

SpecRestart == InitRestart /\ [][NextRestart]_vars

InitAlgo ==
    /\ config = DefaultConfig
    /\ algo_peers \in AlgoPeerLists
    /\ algo_cost \in AlgoReopenCosts
    /\ algo_out = <<>>
    /\ SchedIdle
    /\ DaemonIdle
    /\ NodeIdle
    /\ FeeIdle
    /\ EarnIdle
    /\ RebalIdle
    /\ PriceIdle
    /\ OpenerIdle
    /\ ClientIdle
    /\ JudgeIdle
    /\ AutoIdle
    /\ TrackIdle
    /\ IngestIdle
    /\ RegimeIdle
    /\ CandIdle
    /\ HystIdle

\* judge(&peers, reopen_cost_sats)
CallJudge ==
    /\ algo_out = <<>>
    /\ algo_out' = << Judge(algo_peers, algo_cost) >>
    /\ UNCHANGED <<algo_peers, algo_cost>>

AlgoRest ==
    UNCHANGED <<config, openerVars, clientVars, priceVars, feeVars, earnVars, rebalVars,
                judgeVars, autoVars, trackVars, ingestVars, channels, rpcLog,
                regimeVars, candVars, hystVars, schedVars, daemonVars, cycles>>

NextAlgo == CallJudge /\ AlgoRest

SpecAlgo == InitAlgo /\ [][NextAlgo]_vars

\* Rows that earlier runs left in the audit tables.
EarlierOpens ==
    << [ channel_id |-> "new-pOld", counterparty_node_id |-> "pOld",
         amount_sats |-> 100000, opened_at |-> StartDay - 5 ] >>

EarlierClosures ==
    << [ channel_id |-> "c0", counterparty_node_id |-> "pOld", closed_at |-> StartDay - 3 ] >>

\* A cycle of a node whose audit tables hold rows of earlier runs.
InitAudit ==
    /\ \E s \in Scenes, dry \in BOOLEAN :
          /\ config = [s.config EXCEPT !.dry_run = dry]
          /\ channels = s.channels
          /\ node_balances = s.balances
          /\ onchain_fee_samples = s.samples
          /\ fee_regime = s.saved
          /\ earnings = s.earnings
          /\ rebalance_costs = s.costs
          /\ channel_history = s.history
          /\ price_theory_center = s.store.center
          /\ price_theory_cards = s.store.cards
          /\ decks_created = s.store.decks
          /\ round_ended = s.store.ended
    /\ pt_calls = 0
    /\ last_op = "none"
    /\ tick_peers = <<>>
    /\ today = StartDay
    /\ \E sched \in { <<0, FALSE>>, <<1, FALSE>>, <<0, TRUE>> } :
          /\ tick_count = sched[1]
          /\ force_all = sched[2]
    /\ rpcLog = <<>>
    /\ cycles = 0
    /\ judge_closures = EarlierClosures
    /\ judgeLog = <<>>
    /\ autopilot_opens = EarlierOpens
    /\ peer_addresses = <<>>
    /\ autoLog = <<>>
    /\ FeeIdle
    /\ RebalIdle
    /\ OpenerIdle
    /\ ClientIdle
    /\ TrackIdle
    /\ IngestIdle
    /\ DaemonIdle
    /\ RegimeIdle
    /\ CandIdle
    /\ HystIdle
    /\ AlgoIdle

SpecAudit == InitAudit /\ [][NextCycle]_vars

InitPlan ==
    /\ config \in PlanRunConfigs
    /\ channels \in PlanSnapshots
    /\ rpcLog = <<>>
    /\ cycles = 0
    /\ node_balances \in PlanBalances(config)
    /\ onchain_fee_samples \in PlanSamples
    /\ fee_regime = <<>>
    /\ autopilot_opens = <<>>
    /\ peer_addresses = <<>>
    /\ autoLog = <<>>
    /\ planArgs \in [candidates : CandidateLists, budget_sats : {0}, max_proposals : {0}]
    /\ plan = <<>>
    /\ planned = FALSE
    /\ ClientIdle
    /\ PriceIdle
    /\ FeeIdle
    /\ EarnIdle
    /\ RebalIdle
    /\ JudgeIdle
    /\ SchedIdle
    /\ TrackIdle
    /\ IngestIdle
    /\ DaemonIdle
    /\ RegimeIdle
    /\ CandIdle
    /\ HystIdle
    /\ AlgoIdle

\* autopilot::run up to the plan; planArgs.candidates is what
\* get_candidates returns.  Without a budget or a candidate run returns
\* before plan_opens.
PlanPhase ==
    /\ ~planned
    /\ \E budget \in ShouldOpen(config, node_balances, onchain_fee_samples, fee_regime) :
          IF budget = <<>> \/ planArgs.candidates = <<>>
          THEN plan' = <<>> /\ UNCHANGED planArgs
          ELSE /\ planArgs' = [planArgs EXCEPT
                                 !.budget_sats = budget[1],
                                 !.max_proposals = MaxProposals(config, channels)]
               /\ plan' = PlanOpens(config, planArgs.candidates, budget[1],
                                    MaxProposals(config, channels))
    /\ planned' = TRUE

PlanRest ==
    UNCHANGED <<config, clientVars, priceVars, nodeVars, feeVars, earnVars, rebalVars,
                judgeVars, autoVars, schedVars, trackVars, ingestVars, daemonVars,
                regimeVars, candVars, hystVars, algoVars>>

NextPlan == PlanPhase /\ PlanRest

SpecPlan == InitPlan /\ [][NextPlan]_vars

InitRound ==
    /\ config \in RoundConfigs
    /\ price_theory_center = EmptyStore.center
    /\ price_theory_cards = EmptyStore.cards
    /\ decks_created = EmptyStore.decks
    /\ round_ended = NoEnds
    /\ pt_calls = 0
    /\ last_op = "none"
    /\ tick_peers = <<>>
    /\ OpenerIdle
    /\ ClientIdle
    /\ NodeIdle
    /\ FeeIdle
    /\ EarnIdle
    /\ RebalIdle
    /\ JudgeIdle
    /\ AutoIdle
    /\ SchedIdle
    /\ TrackIdle
    /\ IngestIdle
    /\ DaemonIdle
    /\ RegimeIdle
    /\ CandIdle
    /\ HystIdle
    /\ AlgoIdle

\* update_tick of one fee run; pt_calls counts these calls.
RoundTick(connected_peers) ==
    /\ pt_calls < MaxRoundTicks
    /\ \E q \in UpdateTick(PriceStore, connected_peers, config) : StoreBecomes(q)
    /\ pt_calls' = pt_calls + 1
    /\ last_op' = "update_tick"
    /\ tick_peers' = connected_peers
    /\ UNCHANGED <<channels, rpcLog, cycles>>

\* record_earnings for a forward through pA, between two ticks; cycles
\* counts these calls.
RoundEarns(fee_msat) ==
    /\ pt_calls >= 1
    /\ cycles < MaxRoundEarnings
    /\ StoreBecomes(RecordEarnings(PriceStore, "pA", fee_msat))
    /\ cycles' = cycles + 1
    /\ last_op' = "record_earnings"
    /\ UNCHANGED <<pt_calls, tick_peers, channels, rpcLog>>

RoundRest ==
    UNCHANGED <<config, openerVars, clientVars, feeVars, earnVars, rebalVars,
                judgeVars, autoVars, schedVars, trackVars, ingestVars, daemonVars,
                regimeVars, candVars, hystVars, algoVars>>

\* The ticks: the daemon's loop runs the fee controller cycle after cycle.
RoundTicks == (\E l \in RoundLists : RoundTick(l)) /\ RoundRest

NextRound ==
    \/ \E l \in RoundLists : RoundTick(l) /\ RoundRest
    \/ \E f \in FeeValues : RoundEarns(f) /\ RoundRest

SpecRound == InitRound /\ [][NextRound]_vars

\* The daemon keeps running cycles: a tick that can be made is made.
SpecRoundLive == SpecRound /\ WF_vars(RoundTicks)

-----------------------------------------------------------------------------
(* C5: every planned amount is at most half of the starting budget, and    *)
(* nothing is planned when half the budget is below min_channel_sats.      *)
(* The source's final .max(min_channel_sats) lifts the amount back above   *)
(* budget / 2, so this is violated by plan_opens as written.               *)
C5_HalfBudgetCap ==
    planned =>
        /\ \A k \in 1..Len(plan) :
              plan[k].amount_sats <= planArgs.budget_sats \div 2
        /\ (planArgs.budget_sats \div 2 < config.min_channel_sats => plan = <<>>)

(* C2: an invocation of a mutating RPC puts its request on the wire at     *)
(* most once, also when the request fails.  with_retry wraps every method, *)
(* the mutating ones too, so a failed OpenChannel is sent again.           *)
C2_MutatingSentAtMostOnce ==
    \A c \in Callers : rpc[c].kind \in MutatingRpcs => rpc[c].sent <= 1

(* C8: after any sequence of update_tick and record_earnings calls, with   *)
(* peer lists that may name a peer more than once, every peer has at most  *)
(* one card in play.                                                       *)
C8_AtMostOneInPlay ==
    \A p \in Peers : Cardinality(InPlayRows(PriceStore, p)) <= 1

\* One update_tick call on a new store named peer pB twice, so that its
\* first card expired within the call, and record_earnings then credited the
\* second card, which is in play.
C8_Witness ==
    /\ pt_calls = 2
    /\ last_op = "record_earnings"
    /\ Cardinality(InPlayRows(PriceStore, "pB")) = 1
    /\ RowsAt(PriceStore, "pB", POS_DISCARDED) # {}
    /\ \E i \in InPlayRows(PriceStore, "pB") :
          price_theory_cards["pB"][i].earnings_msat > 0

\* The number of times price v occurs in a sequence of prices.
PriceCount(prices, v) == Cardinality({ i \in 1..Len(prices) : prices[i] = v })

(* C9: right after end_round for a peer the peer has exactly 2*step+1      *)
(* cards, all in the deck, each with the configured lifetime and zero      *)
(* earnings, priced new_center-step .. new_center+step clamped to          *)
(* [-10, 10], and no card of the finished round is left.                   *)
C9_FreshDeckAfterRound ==
    \A p \in Peers :
        round_ended[p].ended =>
            LET r    == round_ended[p]
                want == DeckPrices(r.new_center, config)
                got  == [i \in 1..Len(r.after) |-> r.after[i].price]
            IN  /\ Len(r.after) = 2 * config.price_theory_max_step + 1
                /\ \A i \in 1..Len(r.after) :
                      /\ r.after[i].position = POS_DECK
                      /\ r.after[i].lifetime = config.price_theory_card_lifetime_ticks
                      /\ r.after[i].earnings_msat = 0
                      /\ r.after[i].price >= -MAX_PRICE
                      /\ r.after[i].price <= MAX_PRICE
                      /\ \A j \in 1..Len(r.before) : r.after[i].born > r.before[j].born
                /\ \A v \in (-MAX_PRICE - 1)..(MAX_PRICE + 1) :
                      PriceCount(got, v) = PriceCount(want, v)
                /\ \A s \in -config.price_theory_max_step..config.price_theory_max_step :
                      PriceCount(got, Clamp(r.new_center + s, -MAX_PRICE, MAX_PRICE)) >= 1

\* A round ended whose new deck reaches past the price bound and is clamped,
\* after a round in which a card had earned.
C9_Witness ==
    \E p \in Peers :
        /\ round_ended[p].ended
        /\ round_ended[p].new_center + config.price_theory_max_step > MAX_PRICE
        /\ \E j \in 1..Len(round_ended[p].before) :
              round_ended[p].before[j].earnings_msat > 0

(* C10: however often ensure_initialized is called for a peer, between     *)
(* update_tick calls too, the peer has exactly 2*step+1 cards in total.    *)
C10_DeckSizeKept ==
    \A p \in Peers :
        decks_created[p] >= 1 =>
            Len(price_theory_cards[p]) = 2 * config.price_theory_max_step + 1

\* ensure_initialized was called on pA in the middle of its game, after
\* update_tick calls (pB has never been initialized, so the call named pA).
C10_Witness ==
    /\ last_op = "ensure_initialized"
    /\ pt_calls >= 2
    /\ decks_created["pB"] = 0
    /\ decks_created["pA"] >= 2
    /\ RowsAt(PriceStore, "pA", POS_DISCARDED) # {}
    /\ RowsAt(PriceStore, "pA", POS_DECK) # {}
    /\ Len(price_theory_cards["pA"]) = 3

(* C6: every UpdateChannelConfig request of the fee controller carries a   *)
(* proportional fee between 1 and 50 000 ppm, whatever the configured      *)
(* defaults, the balance ratio and the price multiplier.                   *)
C6_PpmWithinHardLimits ==
    \A k \in 1..Len(rpcLog) :
        rpcLog[k].kind = "UpdateChannelConfig" =>
            /\ rpcLog[k].args[2] >= ABS_MIN_FEE_PPM
            /\ rpcLog[k].args[2] <= ABS_MAX_FEE_PPM

\* A request went out whose ppm the multipliers had taken above the upper
\* limit, at a price multiplier above 1.0, and it carries the limit.
C6_Witness ==
    \E k \in 1..Len(rpcLog), j \in 1..Len(feeLog) :
        /\ rpcLog[k].kind = "UpdateChannelConfig"
        /\ rpcLog[k].target = feeLog[j].channel_id
        /\ rpcLog[k].args[2] = ABS_MAX_FEE_PPM
        /\ feeLog[j].requested
        /\ feeLog[j].price_milli > MILLI
        /\ ScaleU32(config.default_ppm, feeLog[j].combined_milli) > ABS_MAX_FEE_PPM

\* The UpdateChannelConfig calls of a log, as <<channel, <<base, ppm>>>>.
UpdateCalls(log) ==
    LET IsUpdate(c) == c.kind = "UpdateChannelConfig"
        calls == SelectSeq(log, IsUpdate)
    IN  [k \in 1..Len(calls) |-> <<calls[k].target, calls[k].args>>]

\* The requested decisions of a fee log, in the same form.
RequestedUpdates(log) ==
    LET IsRequested(d) == d.requested
        reqs == SelectSeq(log, IsRequested)
    IN  [k \in 1..Len(reqs) |-> <<reqs[k].channel_id, reqs[k].computed>>]

\* After the run that decided e, the channel carries the pair e computed.
Settled(e) == (e.requested /\ e.ok) \/ (~e.requested /\ e.computed = e.current)

(* C7: the fee controller issues UpdateChannelConfig for a channel only    *)
(* when the computed (base, ppm) differs from the pair of the snapshot; a  *)
(* channel whose computed pair equals its current pair gets no request, so *)
(* after an applied update, with balance and price unchanged, the next     *)
(* cycle issues none for it.                                               *)
C7_UpdateOnlyWhenChanged ==
    /\ UpdateCalls(rpcLog) = RequestedUpdates(feeLog)
    /\ \A k \in 1..Len(feeLog) :
          /\ feeLog[k].requested => feeLog[k].computed # feeLog[k].current
          /\ feeLog[k].computed = feeLog[k].current => ~feeLog[k].requested
          /\ \A j \in 1..Len(feePrev) :
                ( /\ feePrev[j].channel_id = feeLog[k].channel_id
                  /\ feePrev[j].outbound_msat = feeLog[k].outbound_msat
                  /\ feePrev[j].price_milli = feeLog[k].price_milli
                  /\ Settled(feePrev[j]) )
                => ~feeLog[k].requested

\* A cycle applied an update at a price other than 1.0, and the next cycle,
\* at the same balance and price, found the pair in place and sent nothing.
C7_Witness ==
    \E k \in 1..Len(feeLog), j \in 1..Len(feePrev) :
        /\ feePrev[j].channel_id = feeLog[k].channel_id
        /\ feePrev[j].outbound_msat = feeLog[k].outbound_msat
        /\ feePrev[j].price_milli = feeLog[k].price_milli
        /\ feePrev[j].price_milli # MILLI
        /\ feePrev[j].requested /\ feePrev[j].ok
        /\ ~feeLog[k].requested
        /\ feeLog[k].current = feeLog[k].computed

\* The fee budgets (max_total_routing_fee_msat) of the Bolt11Send calls of a
\* log that returned Ok.
RECURSIVE SentFeeBudgets(_)
SentFeeBudgets(log) ==
    IF log = <<>> THEN 0
    ELSE (IF Head(log).kind = "Bolt11Send" /\ Head(log).ok
          THEN Head(log).args[2] ELSE 0)
         + SentFeeBudgets(Tail(log))

(* C4: in one rebalancer cycle the fee budgets of the rebalance payments   *)
(* that were executed add up to at most min(max_total_fee_sats, 50 000)    *)
(* sat, whatever the channels and the earnings history.                    *)
C4_CycleFeeCap ==
    SentFeeBudgets(rpcLog)
        <= Min(config.max_total_fee_sats, ABS_MAX_REBALANCE_FEE_SATS) * 1000

\* Two payments were executed in one cycle, and the cap cut the fee budget
\* of the second below what the amount and the earnings allowed.
C4_Witness ==
    /\ Len(rebalLog) = 2
    /\ rebalLog[1].outcome = "ok"
    /\ rebalLog[2].outcome = "ok"
    /\ rebalLog[2].fee_budget_msat
          < MulDivMillion(rebalLog[2].amount_msat, config.max_fee_ppm)
    /\ SentFeeBudgets(rpcLog)
          = Min(config.max_total_fee_sats, ABS_MAX_REBALANCE_FEE_SATS) * 1000

\* The close requests of a log, cooperative or forced.
CloseCalls(log) ==
    SelectSeq(log, LAMBDA e : e.kind \in {"CloseChannel", "ForceCloseChannel"})

(* C3: in one cycle the judge issues at most one close request in total,   *)
(* CloseChannel or ForceCloseChannel and never both, however many peers    *)
(* the algorithm recommends for closure.                                   *)
C3_AtMostOneClose == Len(CloseCalls(rpcLog)) <= 1

\* The algorithm recommended two or more peers and one close was requested.
C3_Witness ==
    /\ judgeLog # <<>>
    /\ Len(judgeLog[1].recommendations) >= 2
    /\ Len(CloseCalls(rpcLog)) = 1
    /\ rpcLog[1].target = judgeLog[1].selected[1]


\* The RPCs that change the node: those the engines may issue.
MutatingKinds ==
    {"UpdateChannelConfig", "ConnectPeer", "OpenChannel", "CloseChannel",
     "ForceCloseChannel", "Bolt11Receive", "Bolt11Send"}

(* C1: with general.dry_run = true a cycle issues no mutating RPC from the *)
(* fee controller, the autopilot, the rebalancer or the judge, whatever    *)
(* the snapshot and the store hold and also when every gate is forced.     *)
C1_DryRunNoMutation ==
    config.dry_run => \A k \in 1..Len(rpcLog) : rpcLog[k].kind \notin MutatingKinds

\* A dry-run cycle with every gate forced in which each engine reached the
\* point where it would act: a fee that differs from the channel's, a
\* planned open, a rebalance pair and a channel selected for closing.
C1_Witness ==
    /\ config.dry_run
    /\ force_all
    /\ cycles = 1
    /\ \E k \in 1..Len(feeLog) : feeLog[k].computed # feeLog[k].current
    /\ autoLog # <<>>
    /\ autoLog[1].plan # <<>>
    /\ \E k \in 1..Len(rebalLog) : rebalLog[k].outcome = "dry_run"
    /\ judgeLog # <<>>
    /\ judgeLog[1].selected # <<>>
    /\ rpcLog = <<>>


\* The row of a channel id in a table, as a sequence of zero or one rows.
HistoryOf(history, id) == SelectSeq(history, LAMBDA r : r.channel_id = id)

(* C11: after channels::update(S) returned Ok, from any prior state of     *)
(* channel_history, the rows with is_open = 1 are exactly the channel ids  *)
(* of S, and every channel that was open before and is absent from S has   *)
(* is_open = 0 and last_seen_at equal to the timestamp of the update.      *)
C11_OpenRowsAreSnapshot ==
    \A k \in 1..Len(trackLog) :
        trackLog[k].ok =>
            /\ KnownOpen(trackLog[k].after) = { c.channel_id : c \in
                   { trackLog[k].snapshot[i] : i \in 1..Len(trackLog[k].snapshot) } }
            /\ \A id \in KnownOpen(trackLog[k].before) :
                  (\A i \in 1..Len(trackLog[k].snapshot) :
                       trackLog[k].snapshot[i].channel_id # id)
                  => /\ Len(HistoryOf(trackLog[k].after, id)) = 1
                     /\ ~HistoryOf(trackLog[k].after, id)[1].is_open
                     /\ HistoryOf(trackLog[k].after, id)[1].last_seen_at = trackLog[k].now

\* An update that found a new channel, a channel still open and a channel
\* that had gone, at a later time than the rows were written.
C11_Witness ==
    /\ trackLog # <<>>
    /\ LET e == trackLog[Len(trackLog)]
       IN  /\ e.ok
           /\ e.after = channel_history
           /\ \E i \in 1..Len(e.snapshot) : e.snapshot[i].channel_id \notin KnownOpen(e.before)
           /\ \E i \in 1..Len(e.snapshot) : e.snapshot[i].channel_id \in KnownOpen(e.before)
           /\ \E id \in KnownOpen(e.before) :
                 /\ \A i \in 1..Len(e.snapshot) : e.snapshot[i].channel_id # id
                 /\ HistoryOf(e.before, id)[1].last_seen_at < e.now


(* C12: running channels::update twice in a row with the same snapshot and  *)
(* the same timestamp leaves channel_history as running it once left it:   *)
(* same rows, same is_open flags, same first_seen_at and last_seen_at.     *)
C12_UpdateIdempotent ==
    ( /\ Len(trackLog) = 2
      /\ trackLog[1].ok
      /\ trackLog[2].ok
      /\ trackLog[2].snapshot = trackLog[1].snapshot
      /\ trackLog[2].now = trackLog[1].now )
    => /\ trackLog[2].before = trackLog[1].after
       /\ trackLog[2].after = trackLog[1].after

\* Two updates in a row with one snapshot at one time, the first of which
\* inserted a channel and marked another closed.
C12_Witness ==
    /\ Len(trackLog) = 2
    /\ trackLog[1].ok
    /\ trackLog[2].ok
    /\ trackLog[2].snapshot = trackLog[1].snapshot
    /\ trackLog[2].now = trackLog[1].now
    /\ trackLog[2].after = channel_history
    /\ KnownOpen(trackLog[1].before) \ SeenIds(trackLog[1].snapshot) # {}
    /\ SeenIds(trackLog[1].snapshot) \ KnownOpen(trackLog[1].before) # {}

(* C13: channels::update is all-or-nothing: a call that fails part-way     *)
(* leaves channel_history exactly as it was before the call.               *)
C13_FailedUpdateLeavesTable ==
    \A k \in 1..Len(trackLog) :
        ~trackLog[k].ok => trackLog[k].after = trackLog[k].before

(* C14: while the saved cursor is kept, repeated runs of earnings::ingest   *)
(* add each forwarded payment to the earnings table at most once, a        *)
(* payment of the last page (no next_page_token) included.                 *)
C14_PaymentIngestedAtMostOnce ==
    ingested # <<>> => \A id \in DOMAIN ingested : ingested[id] <= 1

(* C16: at every tick count, should_run_autopilot is true exactly when      *)
(* force_all is set or tick_count mod 6 = 0; should_run_judge exactly when *)
(* force_all is set or tick_count mod 36 = 0; should_run_rebalancer is     *)
(* true whenever force_all is set and, without force_all, false on every   *)
(* tick that is no multiple of 12, whatever the trigger probability; on a  *)
(* multiple of 12 it is the outcome of the random draw.                    *)
C16_GatesFollowTicks ==
    gates # <<>> =>
        /\ gates.autopilot <=> (gates.force \/ gates.tick % 6 = 0)
        /\ gates.judge <=> (gates.force \/ gates.tick % 36 = 0)
        /\ gates.force => gates.rebalancer
        /\ (~gates.force /\ gates.tick % 12 # 0) => ~gates.rebalancer
        /\ (~gates.force /\ gates.tick % 12 = 0) => (gates.rebalancer <=> gates.trigger)

\* Tick 30 of a scheduler without force_all whose trigger probability is 1:
\* the autopilot is due, the rebalancer and the judge are not.
C16_Witness ==
    /\ gates # <<>>
    /\ gates.tick = 30
    /\ tick_count = 30
    /\ ~gates.force
    /\ config.trigger_probability = 100
    /\ gates.trigger
    /\ gates.autopilot
    /\ ~gates.rebalancer
    /\ ~gates.judge

(* C15: once the shutdown value has been sent the daemon starts no new     *)
(* cycle: a cycle that is running goes on phase by phase to its end and is *)
(* not cut short, after it the loop leaves through the sleep's select or   *)
(* the test at the head without entering phase 1 again, and the loop does  *)
(* exit.                                                                   *)
C15_NoCycleAfterShutdown ==
    /\ [][ shutdown_tx =>
             /\ (daemon_pc \notin CyclePhases => daemon_pc' \notin CyclePhases)
             /\ (daemon_pc \in CyclePhases =>
                    daemon_pc' \in {daemon_pc, "tick"} \cup
                                   { PhaseOrder[k] : k \in (PhaseRank(daemon_pc) + 1)..6 }) ]_vars
    /\ (shutdown_tx ~> daemon_pc = "exited")

\* The interrupt arrived while the autopilot phase was about to run; the
\* cycle ran all six phases, and the loop has exited without another cycle.
C15_Witness ==
    /\ daemon_pc = "exited"
    /\ shutdown_tx
    /\ daemonLog.signal_at = "autopilot"
    /\ Len(phaseLog) = 6
    /\ daemonLog.started = 1
    /\ daemonLog.ended = 1
    /\ tick_count = 1

(* C17: in every cycle the steps run in the order snapshot, trackers, fee  *)
(* controller, autopilot, rebalancer, judge; no engine starts before the   *)
(* trackers of its cycle have finished; every engine of a cycle reads the  *)
(* snapshot that phase 1 of the cycle collected; and a cycle never starts  *)
(* before the previous one has ended.                                      *)
C17_PhaseOrderAndSnapshot ==
    daemon_pc \notin {"idle", "start", "aborted"} =>
        /\ \A k \in 1..Len(phaseLog) : phaseLog[k].phase = PhaseOrder[k]
        /\ daemon_pc \in CyclePhases => Len(phaseLog) = PhaseRank(daemon_pc) - 1
        /\ \A k \in 3..Len(phaseLog) : phaseLog[1].ok /\ phaseLog[2].ok
        /\ \A k \in 2..Len(phaseLog) : phaseLog[k].read = phaseLog[1].read
        /\ daemonLog.started = daemonLog.ended + (IF daemon_pc \in CyclePhases THEN 1 ELSE 0)

\* A cycle whose four engines all ran on the snapshot of epoch 0 although
\* the node has changed since it was collected.
C17_Witness ==
    /\ daemon_pc = "tick"
    /\ Len(phaseLog) = 6
    /\ \A k \in 1..6 : phaseLog[k].ran
    /\ phaseLog[6].read = 0
    /\ node_epoch = 1
    /\ daemonLog.signal_at = ""

(* C18: an error returned by an engine does not keep the engines after it  *)
(* from running in the same cycle, and does not stop the loop: every cycle *)
(* that got past its trackers reaches all four engines, each one called    *)
(* when it is enabled and due whatever the engines before it returned; the *)
(* tick advances after every cycle; the loop exits only with the shutdown  *)
(* value sent, and without it the sleep is followed by the next cycle.     *)
C18_CycleTick == IF daemon_pc = "tick" THEN tick_count ELSE tick_count - 1

C18_EngineErrorsDoNotStop ==
    /\ [] ( daemon_pc \in {"tick", "select", "head", "exited"} /\ phaseLog # <<>> =>
              /\ Len(phaseLog) >= 2 /\ phaseLog[2].ok => Len(phaseLog) = 6
              /\ Len(phaseLog) = 6 =>
                    /\ phaseLog[3].ran <=> config.fees_enabled
                    /\ phaseLog[4].ran <=> (config.autopilot_enabled
                                            /\ ShouldRunAutopilot(C18_CycleTick, FALSE))
                    /\ phaseLog[5].ran => (config.rebalancer_enabled
                                           /\ ShouldRunRebalancer(C18_CycleTick, FALSE, TRUE))
                    /\ phaseLog[6].ran <=> (config.judge_enabled
                                            /\ ShouldRunJudge(C18_CycleTick, FALSE)) )
    /\ [] ( daemon_pc \in {"select", "head"} => tick_count = daemonLog.ended )
    /\ [] ( daemon_pc = "exited" => shutdown_tx )
    /\ ( (daemon_pc = "select" /\ cycles < MaxDaemonCycles)
           ~> (daemon_pc = "collect" \/ shutdown_tx) )

\* The second cycle has begun after a first one in which the fee controller
\* and the autopilot both failed and the rebalancer and the judge still ran.
C18_Witness ==
    /\ daemon_pc = "collect"
    /\ ~shutdown_tx
    /\ tick_count = 1
    /\ daemonLog.started = 2
    /\ Len(daemonLog.previous) = 6
    /\ daemonLog.previous[3].ran /\ ~daemonLog.previous[3].ok
    /\ daemonLog.previous[4].ran /\ ~daemonLog.previous[4].ok
    /\ daemonLog.previous[5].ran
    /\ daemonLog.previous[6].ran

(* C19: while the fee provider is unreachable (the last sampling wrote no  *)
(* sample), current_regime reports High, whatever samples and saved regime *)
(* the store holds.                                                        *)
C19_OutageReportsHigh ==
    (regimeLog # <<>> /\ regimeLog.outage /\ config.provider # "none"
       /\ regimeLog.asked # <<>>)
    => regimeLog.asked = <<"High">>

(* C20: current_regime returns High when there is no sample; otherwise,    *)
(* with the n samples sorted ascending, lo = samples[min(floor(hi_to_lo_pct *)
(* * n / 100), n - 1)] and hi likewise with lo_to_hi_pct, it returns Low   *)
(* if latest <= lo, else High if latest >= hi, else the regime last saved  *)
(* by save_regime, High if none was saved.                                 *)
C20_RegimeByPercentiles ==
    (regimeLog # <<>> /\ regimeLog.asked # <<>>) =>
        LET sorted == FeeratesAsc(onchain_fee_samples)
            n  == Len(sorted)
            lo == sorted[Min((config.hi_to_lo_percentile * n) \div 100, n - 1) + 1]
            hi == sorted[Min((config.lo_to_hi_percentile * n) \div 100, n - 1) + 1]
        IN  IF n = 0 THEN regimeLog.asked = <<"High">>
            ELSE \E latest \in LatestFeerates(onchain_fee_samples) :
                    regimeLog.asked[1] =
                        IF latest <= lo THEN "Low"
                        ELSE IF latest >= hi THEN "High"
                        ELSE IF fee_regime = SaveRegime("Low") THEN "Low" ELSE "High"

(* C21: should_open returns a budget only if spendable_onchain > reserve,  *)
(* spendable_onchain - reserve >= min_channel_sats, total_funds > 0,       *)
(* onchain_pct >= min_onchain_pct, and the fee regime is Low or            *)
(* onchain_pct > max_onchain_pct; the budget is then exactly               *)
(* spendable_onchain - reserve; in every other case it abstains.           *)
C21_Eligible ==
    /\ node_balances.spendable_onchain_balance_sats > config.onchain_reserve_sats
    /\ node_balances.spendable_onchain_balance_sats - config.onchain_reserve_sats
           >= config.min_channel_sats
    /\ TotalFundsSats(node_balances) > 0
    /\ ~OnchainPercentBelow(node_balances, config.min_onchain_percent)

C21_Regimes ==
    CurrentRegime(onchain_fee_samples, fee_regime,
                  config.hi_to_lo_percentile, config.lo_to_hi_percentile)

C21_BudgetOnlyWhenEligible ==
    autoLog # <<>> =>
        /\ autoLog[1].budget # <<>> =>
              /\ C21_Eligible
              /\ \/ "Low" \in C21_Regimes
                 \/ OnchainPercentAbove(node_balances, config.max_onchain_percent)
              /\ autoLog[1].budget = << node_balances.spendable_onchain_balance_sats
                                        - config.onchain_reserve_sats >>
        /\ autoLog[1].budget = <<>> =>
              ~( /\ C21_Eligible
                 /\ \/ C21_Regimes = {"Low"}
                    \/ OnchainPercentAbove(node_balances, config.max_onchain_percent) )

\* In a High regime with 500000 sat of 1200000 on chain (over the maximum
\* of 25 percent) the decider hands out 470000 sat.
C21_Witness ==
    /\ autoLog # <<>>
    /\ config = DefaultConfig
    /\ C21_Regimes = {"High"}
    /\ node_balances.spendable_onchain_balance_sats = 500000
    /\ node_balances.total_lightning_balance_sats = 700000
    /\ autoLog[1].budget = << 470000 >>

(* C22: at most one request to the node server is in flight at any         *)
(* instant: the requests of two concurrent callers never overlap, the one  *)
(* permit being held from before a request is sent until it has returned.  *)
C22_OneRequestInFlight ==
    /\ Cardinality({ c \in Callers : rpc[c].pc = "in_flight" }) <= 1
    /\ \A c \in Callers : rpc[c].pc \in {"send", "in_flight"} => permits = 0

(* C23: a call that fails on every attempt is retried up to 3 times with   *)
(* backoff delays of 1 s, 2 s and 4 s between the attempts and then        *)
(* returns the error of the last attempt; a call that succeeds on some     *)
(* attempt returns that result and is not attempted again.                 *)
C23_ThreeRetriesWithBackoff ==
    \A c \in Callers :
        rpc[c].pc = "returned" =>
            /\ rpc[c].result = "Err" =>
                  /\ rpc[c].delays = <<1000, 2000, 4000>>
                  /\ rpc[c].sent = 4
            /\ rpc[c].result = "Ok" =>
                  /\ rpc[c].sent = Len(rpc[c].delays) + 1
                  /\ \A k \in 1..Len(rpc[c].delays) : rpc[c].delays[k] = 1000 * 2^(k - 1)

(* C24: the list get_candidates returns holds no node that is an existing  *)
(* peer, no blacklisted node, and no node id more than once, whichever     *)
(* sources supplied the node and however the sources overlap.              *)
C24_NoPeerNoBlacklisted ==
    candidate_list # <<>> =>
        \A i \in 1..Len(candidate_list[1]) :
            /\ candidate_list[1][i].node_id \notin ExistingPeers(channels)
            /\ ~IsBlacklisted(config, candidate_list[1][i].node_id)

C24_CandidatesFilteredAndUnique ==
    /\ C24_NoPeerNoBlacklisted
    /\ candidate_list # <<>> =>
          \A i, j \in 1..Len(candidate_list[1]) :
              i # j => candidate_list[1][i].node_id # candidate_list[1][j].node_id

\* The ConnectPeer and OpenChannel calls of a cycle, in the order sent.
OpenerCalls(log) == SelectSeq(log, LAMBDA e : e.kind \in {"ConnectPeer", "OpenChannel"})

(* C25: when the autopilot executes a plan, a failed OpenChannel aborts    *)
(* the remaining opens of the cycle (no ConnectPeer and no OpenChannel     *)
(* follows it), whereas a failed ConnectPeer is not fatal: the OpenChannel *)
(* for the same candidate is still sent right after it.                    *)
C25_FailedOpenAbortsFailedConnectDoesNot ==
    LET calls == OpenerCalls(rpcLog)
    IN  \A i \in 1..Len(calls) :
            /\ (calls[i].kind = "OpenChannel" /\ ~calls[i].ok) => i = Len(calls)
            /\ calls[i].kind = "ConnectPeer" =>
                  /\ i < Len(calls)
                  /\ calls[i + 1].kind = "OpenChannel"
                  /\ calls[i + 1].target = calls[i].target

\* Two or more opens were planned; the first ConnectPeer failed, the
\* OpenChannel after it was sent and failed, and nothing was sent for the
\* later plan entries.
C25_Witness ==
    /\ autoLog # <<>>
    /\ Len(autoLog[1].plan) >= 2
    /\ LET calls == OpenerCalls(rpcLog)
       IN  /\ Len(calls) = 2
           /\ calls[1].kind = "ConnectPeer" /\ ~calls[1].ok
           /\ calls[2].kind = "OpenChannel" /\ ~calls[2].ok
           /\ calls[2].target = autoLog[1].plan[1].candidate.node_id

\* How often peer p is named in the list update_tick is called with.
TimesNamed(l, p) == Cardinality({ k \in 1..Len(l) : l[k] = p })

\* What one tick does to the card peer p has in play: a lifetime above 1
\* loses one and nothing else changes; a lifetime of 1 makes the card
\* discarded with lifetime 0 and the deck card of lowest deck_order comes in
\* play with the configured lifetime (when the deck is empty the round ends
\* on the cards with that discard made, and card 0 of the fresh deck comes
\* in play).
C26_OneTick(p) ==
    LET before == price_theory_cards[p]
        after  == price_theory_cards'[p]
        L      == config.price_theory_card_lifetime_ticks
    IN  \A i \in InPlayRows(PriceStore, p) :
          IF before[i].lifetime > 1
          THEN after = [before EXCEPT ![i].lifetime = @ - 1]
          ELSE LET discarded == [before EXCEPT ![i].position = POS_DISCARDED,
                                               ![i].lifetime = 0]
               IN  IF RowsAt(PriceStore, p, POS_DECK) # {}
                   THEN \E j \in NextDeckRows(PriceStore, p) :
                           after = [discarded EXCEPT ![j].position = POS_IN_PLAY,
                                                     ![j].lifetime = L]
                   ELSE /\ round_ended'[p].ended
                        /\ round_ended'[p].before = discarded
                        /\ \E j \in 1..Len(after) :
                              /\ after[j].position = POS_IN_PLAY
                              /\ after[j].deck_order = 0
                              /\ after[j].lifetime = L
                              /\ \A k \in 1..Len(after) :
                                    k # j => after[k].position = POS_DECK

\* Every call of update_tick with a list naming p once has that effect on p.
C26_Step ==
    \A p \in Peers :
        ( /\ pt_calls' = pt_calls + 1
          /\ last_op' = "update_tick"
          /\ TimesNamed(tick_peers', p) = 1 ) => C26_OneTick(p)

(* C26: for a peer named once in every tick, a card drawn with lifetime    *)
(* L = card_lifetime_ticks (L >= 1) is discarded by exactly the L-th       *)
(* update_tick after the one that drew it: each earlier tick takes one off *)
(* its lifetime and changes nothing else, the discarding tick sets its     *)
(* position to discarded and its lifetime to 0, and the same tick puts in  *)
(* play the deck card with the lowest deck_order, with lifetime L.         *)
C26_CardLivesLTicks == [][C26_Step]_vars

\* Cards live two ticks; the third call of update_tick on a new store has
\* discarded the first card drawn and drawn the second.
C26_Witness ==
    /\ config.price_theory_card_lifetime_ticks = 2
    /\ last_op = "update_tick"
    /\ tick_peers = <<"pA">>
    /\ pt_calls = 3
    /\ decks_created["pA"] = 1
    /\ Cardinality(RowsAt(PriceStore, "pA", POS_DISCARDED)) = 1
    /\ \A i \in RowsAt(PriceStore, "pA", POS_DISCARDED) :
          price_theory_cards["pA"][i].lifetime = 0
    /\ \E j \in InPlayRows(PriceStore, "pA") : price_theory_cards["pA"][j].lifetime = 2

\* A run of the fee controller that reached update_tick leaves the cards of
\* every peer it named as one tick of that peer leaves them.
C27_Step ==
    ( /\ cycles' = cycles + 1
      /\ pt_calls' = pt_calls + 1
      /\ last_op' = "update_tick" ) =>
        \A p \in Peers :
            TimesNamed(tick_peers', p) >= 1 =>
                price_theory_cards'[p] \in
                    { q.cards[p] : q \in TickPeer(PriceStore, p, config) }

(* C27: one run of the fee controller advances the price game of each peer *)
(* that has a usable channel by exactly one tick (one lifetime decrement,  *)
(* or one discard-and-draw), however many usable channels the node has     *)
(* with that peer.                                                         *)
C27_OneTickPerPeerPerRun == [][C27_Step]_vars

\* The rows of a finished round that were discarded when it ended.
DiscardedOf(cards) == { j \in 1..Len(cards) : cards[j].position = POS_DISCARDED }

(* C28: at the end of a round the new center is the price of a discarded   *)
(* card whose accumulated earnings are maximal among that peer's discarded *)
(* cards, clamped to [-10, +10]; it replaces the stored center and the     *)
(* fresh deck is built around it.                                          *)
C28_CenterIsBestDiscarded ==
    \A p \in Peers :
        round_ended[p].ended =>
            LET r == round_ended[p]
            IN  /\ \E j \in DiscardedOf(r.before) :
                      /\ \A k \in DiscardedOf(r.before) :
                            r.before[j].earnings_msat >= r.before[k].earnings_msat
                      /\ r.new_center = Clamp(r.before[j].price, -MAX_PRICE, MAX_PRICE)
                /\ price_theory_center[p] = << r.new_center >>
                /\ \A v \in -MAX_PRICE..MAX_PRICE :
                      PriceCount([i \in 1..Len(r.after) |-> r.after[i].price], v)
                          = PriceCount(DeckPrices(r.new_center, config), v)

\* A round ended in which one discarded card had earned more than another
\* of a different price; the center moved to the price of the first.
C28_Witness ==
    \E p \in Peers :
        /\ round_ended[p].ended
        /\ \E j, k \in DiscardedOf(round_ended[p].before) :
              /\ round_ended[p].before[j].earnings_msat
                    > round_ended[p].before[k].earnings_msat
              /\ round_ended[p].before[j].price # round_ended[p].before[k].price
              /\ round_ended[p].new_center = round_ended[p].before[j].price
              /\ price_theory_center[p] = << round_ended[p].before[j].price >>

\* A row that is closed stays closed and keeps its first_seen_at.
C29_Step ==
    \A k \in 1..Len(channel_history) :
        ~channel_history[k].is_open =>
            \A j \in 1..Len(channel_history') :
                channel_history'[j].channel_id = channel_history[k].channel_id =>
                    /\ ~channel_history'[j].is_open
                    /\ channel_history'[j].first_seen_at = channel_history[k].first_seen_at

(* C29: a channel-history row only makes the transitions absent -> open,   *)
(* open -> open and open -> closed: once a channel id has been marked      *)
(* closed, no later update marks it open again or changes its              *)
(* first_seen_at.                                                          *)
C29_ClosedStaysClosed == [][C29_Step]_vars

(* C30: across successive autopilot decisions, when the latest feerate     *)
(* lies strictly between the two thresholds the regime used is the regime  *)
(* obtained at the most recent decision whose feerate was outside the      *)
(* band: after a Low classification the regime stays Low until the feerate *)
(* reaches the upper threshold.                                            *)
C30_BandKeepsPreviousRegime ==
    ( /\ regime_trace.used # <<>>
      /\ regime_trace.in_band
      /\ regime_trace.outside # <<>> )
    => regime_trace.used = regime_trace.outside

\* A start of the daemon after it had exited leaves the tick counter at the
\* value it had when the daemon exited.
C31_Step == (daemon_pc = "exited" /\ daemon_pc' = "head") => tick_count' = tick_count

(* C31: the scheduler's tick count is kept in the history store: after the *)
(* daemon is restarted the tick counter continues from the value it had    *)
(* before, so the per-module intervals (6, 12, 36 ticks) are kept across   *)
(* restarts.                                                               *)
C31_TickCountSurvivesRestart == [][C31_Step]_vars

\* The peers of positive capacity, in ascending rate order.
AlgoRated == SortByRate(SelectSeq(algo_peers, LAMBDA p : p.total_channel_sats > 0))

\* median * capacity * 1000 - earned - reopen_cost_msat > 0, as a comparison
\* of integers (both sides multiplied by the median peer's capacity).
ImprovementPositive(p, m, reopen_cost_msat) ==
    m.total_earned_msat * p.total_channel_sats
        > (p.total_earned_msat + reopen_cost_msat) * m.total_channel_sats

\* The peers the rule names: rate strictly below the median, improvement > 0.
Underperformers ==
    IF AlgoRated = <<>> THEN {}
    ELSE LET m == WeightedMedian(AlgoRated)
         IN  { AlgoRated[k].counterparty_node_id : k \in
                 { i \in 1..Len(AlgoRated) :
                     /\ RateLess(AlgoRated[i], m)
                     /\ ImprovementPositive(AlgoRated[i], m, algo_cost * 1000) } }

AllSameRate ==
    \A i, j \in 1..Len(AlgoRated) :
        ~RateLess(AlgoRated[i], AlgoRated[j])

\* C32: judge() recommends exactly the peers of positive capacity whose rate
\* is strictly below the capacity-weighted median rate and whose improvement
\* median * capacity * 1000 - earned - reopen_cost_msat is positive, ordered
\* by improvement descending; peers of one common rate yield no
\* recommendation.
C32_RecommendsExactlyUnderperformers ==
    algo_out # <<>> =>
        LET recs == algo_out[1]
        IN  /\ { recs[i].counterparty_node_id : i \in 1..Len(recs) } = Underperformers
            /\ Len(recs) = Cardinality(Underperformers)
            /\ \A i \in 1..Len(recs) - 1 :
                   recs[i].expected_improvement_msat >= recs[i + 1].expected_improvement_msat
            /\ AllSameRate => recs = <<>>
\* The destinations and sources among the node's channels, as the cycle that
\* starts in this state classifies them.
CycleClasses ==
    Classify(config, Balances(SelectSeq(channels, IsUsable)), earnings, rebalance_costs,
             today - EARNINGS_WINDOW_DAYS, 1, [destinations |-> <<>>, sources |-> <<>>])

\* The payments of a cycle: its bolt11_send calls.
SendsIn(calls) == Cardinality({ i \in 1..Len(calls) : calls[i].kind = "Bolt11Send" })

PaymentBound(classes) ==
    Max(1, (Min(Len(classes.destinations), Len(classes.sources)) * 20) \div 100)

\* A rebalancer cycle: at most max(1, floor(n * 20%)) payments, none when a
\* class is empty, none toward a peer whose out-net earnings are not positive.
C33_Step ==
    cycles' = cycles + 1 =>
        /\ SendsIn(rpcLog') <= PaymentBound(CycleClasses)
        /\ (CycleClasses.destinations = <<>> \/ CycleClasses.sources = <<>>)
               => (rpcLog' = <<>> /\ rebalLog' = <<>>)
        /\ \A i \in 1..Len(rebalLog') :
               OutNet(PeerEarningsSince(earnings, rebalance_costs, rebalLog'[i].dst_peer,
                                        today - EARNINGS_WINDOW_DAYS)) > 0

\* C33: in one rebalancer cycle at most max(1, floor(n * 20%)) rebalance
\* payments are executed, n the smaller of the numbers of destinations and
\* of sources; none when either class is empty; none toward a destination
\* whose out-net earnings are <= 0.
C33_TopPairsOnly == [][C33_Step]_vars

\* A cycle over ten destinations and ten sources has made its two payments,
\* to two different destinations.
C33_Witness ==
    /\ cycles > 0
    /\ Len(channels) = 20
    /\ SendsIn(rpcLog) = 2
    /\ Len(rebalLog) = 2
    /\ rebalLog[1].dst_peer # rebalLog[2].dst_peer
\* The calls of the given kinds that returned Ok, in call order.
Succeeded(calls, kinds) == SelectSeq(calls, LAMBDA c : c.kind \in kinds /\ c.ok)

\* The calls of the given kinds that returned Err.
Failed(calls, kinds) == SelectSeq(calls, LAMBDA c : c.kind \in kinds /\ ~c.ok)

\* The rows of after that follow the rows of before.
Gained(before, after) == SubSeq(after, Len(before) + 1, Len(after))

KeepsRows(before, after) ==
    /\ Len(after) >= Len(before)
    /\ SubSeq(after, 1, Len(before)) = before

C34_Step ==
    LET opened == Succeeded(rpcLog', {"OpenChannel"})
        closed == Succeeded(rpcLog', {"CloseChannel", "ForceCloseChannel"})
        opens  == Gained(autopilot_opens, autopilot_opens')
        closes == Gained(judge_closures, judge_closures')
    IN  /\ KeepsRows(autopilot_opens, autopilot_opens')
        /\ KeepsRows(judge_closures, judge_closures')
        /\ IF cycles' = cycles + 1
           THEN /\ Len(opens) = Len(opened)
                /\ \A i \in 1..Len(opens) :
                       /\ opens[i].counterparty_node_id = opened[i].target
                       /\ opens[i].amount_sats = opened[i].args[1]
                /\ Len(closes) = Len(closed)
                /\ \A i \in 1..Len(closes) : closes[i].channel_id = closed[i].target
           ELSE opens = <<>> /\ closes = <<>>

\* C34: the audit trails are append-only and exact: autopilot_opens gains
\* exactly one row per OpenChannel that succeeded, judge_closures exactly one
\* row per close that succeeded; a failed or dry-run action writes no row,
\* and no existing row is modified or removed.
C34_AuditTrailsAppendOnly == [][C34_Step]_vars

\* A cycle on tables with earlier rows: an open succeeded and a later one
\* failed, a close succeeded, and each table gained its one row.
C34_Witness ==
    /\ cycles > 0
    /\ Len(autopilot_opens) = Len(EarlierOpens) + 1
    /\ Failed(rpcLog, {"OpenChannel"}) # <<>>
    /\ Len(judge_closures) = Len(EarlierClosures) + 1
    /\ SubSeq(autopilot_opens, 1, Len(EarlierOpens)) = EarlierOpens

\* The position of the planned candidate in the candidate list.
PositionOf(candidates, node_id) ==
    CHOOSE k \in 1..Len(candidates) : candidates[k].node_id = node_id

UsableCount == Len(SelectSeq(channels, IsUsable))

\* C35: a plan of plan_opens has at most max_proposals entries, 1 when the
\* usable-channel count is >= min_channels_to_backoff; it holds only
\* candidates that have an address, in candidate order; every amount lies
\* in [min_channel_sats, max_channel_sats].
C35_PlanWithinLimits ==
    planned =>
        /\ Len(plan) <= planArgs.max_proposals
        /\ planArgs.max_proposals <= config.max_proposals
        /\ plan # <<>> => planArgs.max_proposals = MaxProposals(config, channels)
        /\ UsableCount >= config.min_channels_to_backoff => Len(plan) <= 1
        /\ \A i \in 1..Len(plan) :
              /\ \E k \in 1..Len(planArgs.candidates) :
                     planArgs.candidates[k] = plan[i].candidate
              /\ plan[i].candidate.address # ""
              /\ plan[i].amount_sats >= config.min_channel_sats
              /\ plan[i].amount_sats <= config.max_channel_sats
        /\ \A i, j \in 1..Len(plan) :
              i < j => PositionOf(planArgs.candidates, plan[i].candidate.node_id)
                         < PositionOf(planArgs.candidates, plan[j].candidate.node_id)

\* In backoff, with two addressed candidates, a budget for both and a
\* configured max_proposals of more than one, one open is planned.
C35_Witness ==
    /\ planned
    /\ UsableCount >= config.min_channels_to_backoff
    /\ config.max_proposals >= 2
    /\ Len(SelectSeq(planArgs.candidates, LAMBDA c : c.address # "")) >= 2
    /\ planArgs.budget_sats >= 2 * config.min_channel_sats
    /\ Len(plan) = 1

\* The number of cards peer p has in play.
InPlayCount(p) == Cardinality(InPlayRows(PriceStore, p))

\* A call of update_tick leaves every peer it names with one card in play,
\* and no call takes the card in play away from a peer that has one.
C36_Step ==
    \A p \in Peers :
        /\ InPlayCount(p) = 1 => InPlayCount(p)' = 1
        /\ ( /\ pt_calls' = pt_calls + 1
             /\ last_op' = "update_tick"
             /\ TimesNamed(tick_peers', p) >= 1 ) => InPlayCount(p)' = 1

\* C36: once update_tick has processed a peer (step >= 0), the peer has
\* exactly one card in play after every update_tick and in every state
\* between ticks; the in-play count never returns to zero, so that
\* get_fee_modifier falls back to the neutral multiplier only before the
\* peer's first tick.
C36_AlwaysOneInPlay == [][C36_Step]_vars

\* Peer pA was ticked to the end of a round of a three-card deck: the tick
\* that discarded the last card left the first card of the fresh deck in play.
C36_Witness ==
    /\ config.price_theory_max_step = 1
    /\ decks_created["pA"] = 2
    /\ round_ended["pA"].ended
    /\ InPlayCount("pA") = 1
    /\ GetFeeModifier(PriceStore, "pA") # {}
\* The ticks of one round: every card of the deck lives its lifetime.
RoundLength ==
    (2 * config.price_theory_max_step + 1) * config.price_theory_card_lifetime_ticks

\* The rounds that end within the ticks of the model.
RoundsThatFit == (MaxRoundTicks - 1) \div RoundLength

\* After tick t >= 1 the peer is in round 1 + (t - 1) \div RoundLength; a
\* tick ends a round exactly when t = 1 + k * RoundLength, k >= 1, and the
\* round it ends has every card discarded.
C37_OnSchedule ==
    pt_calls >= 1 =>
        /\ decks_created["pA"] = 1 + (pt_calls - 1) \div RoundLength
        /\ last_op = "update_tick" =>
              /\ round_ended["pA"].ended
                    <=> (pt_calls > 1 /\ (pt_calls - 1) % RoundLength = 0)
              /\ round_ended["pA"].ended =>
                    /\ Len(round_ended["pA"].before) = 2 * config.price_theory_max_step + 1
                    /\ \A i \in 1..Len(round_ended["pA"].before) :
                           round_ended["pA"].before[i].position = POS_DISCARDED

\* C37: for a peer named once in every tick, every round eventually ends,
\* after exactly (2*step+1) * card_lifetime_ticks ticks: counted from the
\* peer's first tick, the k-th round ends at tick 1 + k * (2*step+1) *
\* card_lifetime_ticks, and every card of the deck has been in play before
\* the round ends.
C37_EveryRoundEnds ==
    /\ []C37_OnSchedule
    /\ (pt_calls >= 1 /\ decks_created["pA"] <= RoundsThatFit)
           ~> (last_op = "update_tick" /\ round_ended["pA"].ended)

\* Cards of a three-card deck live two ticks: tick 13 ended the second
\* round, with earnings recorded on the way.
C37_Witness ==
    /\ config.price_theory_max_step = 1
    /\ config.price_theory_card_lifetime_ticks = 2
    /\ pt_calls = 13
    /\ last_op = "update_tick"
    /\ round_ended["pA"].ended
    /\ decks_created["pA"] = 3
    /\ \E i \in 1..Len(round_ended["pA"].before) :
          round_ended["pA"].before[i].earnings_msat > 0
\* The sum of the amounts of a plan.
RECURSIVE PlannedSats(_)
PlannedSats(opens) ==
    IF opens = <<>> THEN 0 ELSE Head(opens).amount_sats + PlannedSats(Tail(opens))

\* C38: the amounts planned by plan_opens sum to at most the budget; the
\* budget being spendable_onchain - reserve, the opens of a cycle leave at
\* least the configured reserve of the spendable on-chain funds.
C38_PlanWithinBudget ==
    (planned /\ plan # <<>>) =>
        /\ config.min_channel_sats <= config.max_channel_sats
        /\ PlannedSats(plan) <= planArgs.budget_sats
        /\ planArgs.budget_sats
              = node_balances.spendable_onchain_balance_sats - config.onchain_reserve_sats
        /\ node_balances.spendable_onchain_balance_sats - PlannedSats(plan)
              >= config.onchain_reserve_sats

\* Two opens were planned that take the whole budget: exactly the reserve
\* stays on chain.
C38_Witness ==
    /\ planned
    /\ Len(plan) = 2
    /\ PlannedSats(plan) = planArgs.budget_sats
    /\ node_balances.spendable_onchain_balance_sats - PlannedSats(plan)
          = config.onchain_reserve_sats
\* The cycle whose phases the log holds ended with a failed collect or a
\* failed tracker update.
FailedEarly(log) ==
    /\ log # <<>>
    /\ log[Len(log)].phase \in {"collect", "trackers"}
    /\ ~log[Len(log)].ok

\* sched.tick() after a cycle that failed early: the counter gains one.
C39_Step ==
    (FailedEarly(phaseLog) /\ daemon_pc = "tick" /\ daemon_pc' # "tick")
        => (daemon_pc' = "select" /\ tick_count' = tick_count + 1)

\* C39: when collecting the snapshot fails, or the tracker update returns an
\* error, the cycle ends at once and no policy engine runs in it; the daemon
\* still advances the tick counter by one and attempts the next cycle.
C39_EarlyFailureEndsCycle ==
    /\ [] ( \A k \in 1..Len(phaseLog) :
               (phaseLog[k].phase \in {"collect", "trackers"} /\ ~phaseLog[k].ok) =>
                  /\ k = Len(phaseLog)
                  /\ \A j \in 1..Len(phaseLog) : phaseLog[j].phase \notin Engines
                  /\ daemon_pc \in {"tick", "select", "head", "exited"} )
    /\ [][C39_Step]_vars
    /\ [] ( (FailedEarly(phaseLog) /\ daemon_pc \in {"select", "head"})
               => (tick_count = daemonLog.ended /\ tick_count = cycles) )
    /\ ( (FailedEarly(phaseLog) /\ daemon_pc = "tick" /\ cycles + 1 < MaxDaemonCycles)
           ~> (daemon_pc = "collect" \/ shutdown_tx) )

\* The second cycle has begun, at tick 1, after a first one whose tracker
\* update failed: that cycle ran no engine.
C39_Witness ==
    /\ daemon_pc = "collect"
    /\ ~shutdown_tx
    /\ tick_count = 1
    /\ daemonLog.started = 2
    /\ Len(daemonLog.previous) = 2
    /\ daemonLog.previous[1].ok
    /\ daemonLog.previous[2].phase = "trackers"
    /\ ~daemonLog.previous[2].ok

\* The fee budgets of the executed rebalances of one cycle's decisions whose
\* destination channel is a channel of the peer.
RECURSIVE SpentToward(_, _)
SpentToward(log, peer) ==
    IF log = <<>> THEN 0
    ELSE (IF Head(log).outcome = "ok" /\ Head(log).dst_peer = peer
          THEN Head(log).fee_budget_msat ELSE 0)
         + SpentToward(Tail(log), peer)

\* What the peer's channels earned in the out direction inside the window.
OutEarnedInWindow(peer) ==
    SumFees(earnings, peer, today - EARNINGS_WINDOW_DAYS, "out")

\* The out-net earnings of the peer as peer_earnings_since reports them from
\* a table of rebalance costs.
OutNetOf(costs, peer) ==
    OutNet(PeerEarningsSince(earnings, costs, peer, today - EARNINGS_WINDOW_DAYS))

\* A cycle of the rebalancer: the budgets of this cycle and of the one before
\* it toward a peer stay within the peer's out-earnings, and the budgets of
\* this cycle are taken off the peer's out-net earnings.
C40_Step ==
    (cycles' = cycles + 1) =>
        \A k \in 1..Len(channels) :
            LET peer == channels[k].counterparty_node_id
            IN  /\ SpentToward(rebalLog, peer) + SpentToward(rebalLog', peer)
                       <= Max(OutEarnedInWindow(peer), 0)
                /\ OutNetOf(rebalance_costs', peer)
                       = OutNetOf(rebalance_costs, peer) - SpentToward(rebalLog', peer)

\* C40: over the rebalancer cycles inside the 30-day window the fee budgets
\* spent on rebalances toward one destination peer never exceed the
\* out-direction earnings of that peer in the window, because the cost of
\* each executed rebalance lowers the destination's out-net earnings.
C40_SpendingWithinOutEarnings == [][C40_Step]_vars
=============================================================================
